---- MODULE Spec2Model ----
(***************************************************************************)
(* A model of the MCP service adapters of this repository: the Calendar    *)
(* and Dropbox call_tool dispatchers, the Instagram post_photo handler and *)
(* the PDF Tools handlers.  Every adapter is its own server process, so    *)
(* every adapter has its own next-state relation and specification over    *)
(* the variables that make up its process state and its environment.  The  *)
(* configuration manager and the deployment script have specifications of  *)
(* their own over the files, environment and processes of one host.        *)
(*                                                                         *)
(* Text is modelled as Python builds it: an f-string is the sequence of    *)
(* its literal parts and of the values interpolated between them.  A       *)
(* string that the code parses or formats (a date, a time) is a sequence   *)
(* of one-character strings.                                               *)
(***************************************************************************)
EXTENDS Integers, Sequences, FiniteSets, TLC

VARIABLES
    server,         \* which of the server programs this process runs
    libcPadsYear,   \* whether the platform's strftime pads %Y to 4 digits
    calLast,        \* Calendar: the last invocation and its outcome
    calPrev,        \* Calendar: the invocation whose output calLast was given
    env,            \* the environment variables that are set
    listed,         \* the descriptors list_tools last returned, if any
    dbxLast,        \* Dropbox: the last invocation and its outcome
    igLast,         \* Instagram: the last post_photo invocation and its outcome
    tmpFiles,       \* PDF Tools: the temporary files that exist on disk
    pdfLast,        \* PDF Tools: the last invocation and its outcome
    pdfPrev,        \* PDF Tools: the split whose output pdfLast merged
    tasks,          \* PDF Tools: the invocations of split_pdf_pages in flight
    configFiles,    \* the host: what configs/<id>.yaml and .json hold
    osEnviron,      \* the host: the environment variables that are set
    config,         \* config_manager: the module-level ConfigManager
    cfgLast,        \* config_manager: the last operation and its outcome
    edits,          \* the changes an operator made to the configuration
    startScripts,   \* deploy_client: the clients with a deployments/<id>/
    pidFiles,       \* deploy_client: what deployments/<id>/*.pid hold
    alive,          \* deploy_client: the server processes that run
    launches,       \* deploy_client: the start scripts run so far
    depLast         \* deploy_client: the last operation and its outcome

vars == <<server, libcPadsYear, calLast, calPrev, env, listed, dbxLast,
          igLast, tmpFiles, pdfLast, pdfPrev, tasks, configFiles, osEnviron,
          config, cfgLast, edits, startScripts, pidFiles, alive, launches,
          depLast>>

calVars == <<libcPadsYear, calLast, calPrev>>
dbxVars == <<dbxLast>>
igVars == <<igLast>>
pdfVars == <<tmpFiles, pdfLast, pdfPrev, tasks>>
cfgVars == <<configFiles, osEnviron, config, cfgLast, edits>>
depVars == <<startScripts, pidFiles, alive, launches, depLast>>
\* the state of the service adapters, which the two scripts never touch
coreVars == <<libcPadsYear, calLast, calPrev, env, listed, dbxLast, igLast,
             tmpFiles, pdfLast, pdfPrev, tasks>>

(***************************************************************************)
(* Bounds of the model.                                                    *)
(***************************************************************************)
\* how many days the clock advances past each of its starting days
MaxTicks == 3
\* the largest page count of a downloaded document
MaxPages == 3
\* how many temporary files may pile up on disk before the model stops
MaxLeaked == 1
\* the changes to the configuration that a run is followed for
MaxEdits == 2
\* the start scripts that a run is followed for
MaxLaunches == 1

(***************************************************************************)
(* Text.                                                                   *)
(***************************************************************************)
\* a literal part of an f-string
L(s) == [lit |-> s, val |-> <<>>]
\* an interpolated string value, as its characters
V(cs) == [lit |-> "", val |-> cs]

\* what an invocation yields: a list with one TextContent, or an exception
\* that leaves the function
Text(pieces) == [kind |-> "text", text |-> pieces, exc |-> "none"]
Raise(e) == [kind |-> "raised", text |-> <<>>, exc |-> e]
NoResponse == [kind |-> "none", text |-> <<>>, exc |-> "none"]

DigitChars == <<"0", "1", "2", "3", "4", "5", "6", "7", "8", "9">>
IsDigit(c) == \E i \in 1..10 : DigitChars[i] = c
DigitVal(c) == (CHOOSE i \in 1..10 : DigitChars[i] = c) - 1

RECURSIVE NatToChars(_)
\* str(n) for n >= 0
NatToChars(n) ==
    IF n < 10 THEN <<DigitChars[n + 1]>>
    ELSE NatToChars(n \div 10) \o <<DigitChars[(n % 10) + 1]>>

\* str(n)
IntToChars(n) == IF n < 0 THEN <<"-">> \o NatToChars(-n) ELSE NatToChars(n)

RECURSIVE ZeroPad(_, _)
\* "%0<w>d"
ZeroPad(cs, w) == IF Len(cs) >= w THEN cs ELSE ZeroPad(<<"0">> \o cs, w)

RECURSIVE CharsToNat(_)
\* int(cs) for a sequence of digits
CharsToNat(cs) ==
    IF cs = <<>> THEN 0
    ELSE 10 * CharsToNat(SubSeq(cs, 1, Len(cs) - 1)) + DigitVal(cs[Len(cs)])

(***************************************************************************)
(* Argument values of an invocation: a JSON string, integer or null, or    *)
(* a key the caller left out.                                              *)
(***************************************************************************)
StrArg(cs) == [t |-> "str", s |-> cs, n |-> 0]
IntArg(k) == [t |-> "int", s |-> <<>>, n |-> k]
NullArg == [t |-> "null", s |-> <<>>, n |-> 0]
Missing == [t |-> "missing", s |-> <<>>, n |-> 0]

\* arguments[key] with no default: a variant that the defaulting property
\* must tell from Get
GetWithoutDefault(arguments, key, default) == arguments[key]

\* arguments.get(key, default)
Get(arguments, key, default) ==
    IF arguments[key].t = "missing" THEN default ELSE arguments[key]

(***************************************************************************)
(* The proleptic Gregorian calendar of datetime.                           *)
(***************************************************************************)
MINYEAR == 1
MAXYEAR == 9999

IsLeap(y) == y % 4 = 0 /\ (y % 100 # 0 \/ y % 400 = 0)

DaysInMonth(y, m) ==
    IF m = 2 THEN (IF IsLeap(y) THEN 29 ELSE 28)
    ELSE IF m \in {4, 6, 9, 11} THEN 30 ELSE 31

\* number of days before January 1st of year y
DaysBeforeYear(y) ==
    LET p == y - 1 IN p * 365 + (p \div 4) - (p \div 100) + (p \div 400)

RECURSIVE DaysBeforeMonth(_, _)
\* number of days in year y before the first day of month m
DaysBeforeMonth(y, m) ==
    IF m = 1 THEN 0 ELSE DaysBeforeMonth(y, m - 1) + DaysInMonth(y, m - 1)

\* date.toordinal(): 0001-01-01 is day 1
Ymd2Ord(y, m, d) == DaysBeforeYear(y) + DaysBeforeMonth(y, m) + d

MaxOrdinal == Ymd2Ord(MAXYEAR, 12, 31)

\* date.fromordinal(), as datetime computes it from 400-, 100-, 4- and
\* 1-year cycles
Ord2Ymd(ordinal) ==
    LET n0 == ordinal - 1
        n400 == n0 \div 146097
        r400 == n0 % 146097
        n100 == r400 \div 36524
        r100 == r400 % 36524
        n4 == r100 \div 1461
        r4 == r100 % 1461
        n1 == r4 \div 365
        n == r4 % 365
        year == n400 * 400 + 1 + n100 * 100 + n4 * 4 + n1
        leapyear == n1 = 3 /\ (n4 # 24 \/ n100 = 3)
        yy == IF leapyear THEN 4 ELSE 1   \* a year of the same leapness
        month0 == (n + 50) \div 32
        preceding0 == DaysBeforeMonth(yy, month0)
        month == IF preceding0 > n THEN month0 - 1 ELSE month0
        preceding == DaysBeforeMonth(yy, month)
    IN  IF n1 = 4 \/ n100 = 4
        THEN [y |-> year - 1, m |-> 12, d |-> 31]
        ELSE [y |-> year, m |-> month, d |-> n - preceding + 1]

\* date.weekday(): Monday is 0
Weekday(ordinal) == (ordinal + 6) % 7

DayNames ==
    <<"Monday", "Tuesday", "Wednesday", "Thursday", "Friday", "Saturday",
      "Sunday">>

MonthNames ==
    <<"January", "February", "March", "April", "May", "June", "July",
      "August", "September", "October", "November", "December">>

(***************************************************************************)
(* datetime.strptime and strftime.  strptime turns the format into a       *)
(* regular expression, matches it at the start of the string and then      *)
(* refuses text left over after the match; a failure is a ValueError.      *)
(***************************************************************************)
ParseFail == [ok |-> FALSE, y |-> 0, m |-> 0, d |-> 0]

\* the character at position i, or "" past the end
At(s, i) == IF i >= 1 /\ i <= Len(s) THEN s[i] ELSE ""

\* %m, 1[0-2]|0[1-9]|[1-9]: the length matched at position i, 0 for none,
\* given that the directive is followed by the literal `next`
MatchMonth(s, i, next) ==
    LET a == At(s, i)
        b == At(s, i + 1)
        two == \/ (a = "1" /\ b \in {"0", "1", "2"})
               \/ (a = "0" /\ IsDigit(b) /\ b # "0")
    IN  IF two /\ At(s, i + 2) = next THEN 2
        ELSE IF IsDigit(a) /\ a # "0" /\ b = next THEN 1
        ELSE 0

\* %d, 3[0-1]|[1-2]\d|0[1-9]|[1-9]| [1-9], the last directive of the
\* format: the first alternative that matches decides the match
MatchDay(s, i) ==
    LET a == At(s, i)
        b == At(s, i + 1)
    IN  IF a = "3" /\ b \in {"0", "1"} THEN 2
        ELSE IF a \in {"1", "2"} /\ IsDigit(b) THEN 2
        ELSE IF a = "0" /\ IsDigit(b) /\ b # "0" THEN 2
        ELSE IF IsDigit(a) /\ a # "0" THEN 1
        ELSE IF a = " " /\ IsDigit(b) /\ b # "0" THEN 2
        ELSE 0

\* the digits of a matched field, without the blank %d allows
FieldDigits(s, i, len) ==
    IF At(s, i) = " " THEN SubSeq(s, i + 1, i + len - 1)
    ELSE SubSeq(s, i, i + len - 1)

\* datetime.strptime(s, "%Y-%m-%d")
StrptimeDate(s) ==
    IF ~(\A i \in 1..4 : IsDigit(At(s, i))) \/ At(s, 5) # "-" THEN ParseFail
    ELSE
        LET ml == MatchMonth(s, 6, "-")
            dl == MatchDay(s, 6 + ml + 1)
            y == CharsToNat(SubSeq(s, 1, 4))
            m == CharsToNat(FieldDigits(s, 6, ml))
            d == CharsToNat(FieldDigits(s, 6 + ml + 1, dl))
        IN  IF ml = 0 \/ dl = 0 THEN ParseFail            \* no match
            ELSE IF 6 + ml + dl # Len(s) THEN ParseFail   \* unconverted data
            ELSE IF y < MINYEAR THEN ParseFail            \* year 0
            ELSE IF d > DaysInMonth(y, m) THEN ParseFail  \* day out of range
            ELSE [ok |-> TRUE, y |-> y, m |-> m, d |-> d]

\* %H, 2[0-3]|[0-1]\d|\d, followed by the literal ":"
MatchHour(s, i) ==
    LET a == At(s, i)
        b == At(s, i + 1)
        two == \/ (a = "2" /\ b \in {"0", "1", "2", "3"})
               \/ (a \in {"0", "1"} /\ IsDigit(b))
    IN  IF two /\ At(s, i + 2) = ":" THEN 2
        ELSE IF IsDigit(a) /\ b = ":" THEN 1
        ELSE 0

\* %M, [0-5]\d|\d, the last directive of the format
MatchMinute(s, i) ==
    LET a == At(s, i)
        b == At(s, i + 1)
    IN  IF a \in {"0", "1", "2", "3", "4", "5"} /\ IsDigit(b) THEN 2
        ELSE IF IsDigit(a) THEN 1
        ELSE 0

\* datetime.strptime(s, "%H:%M") succeeds
StrptimeTimeOk(s) ==
    LET hl == MatchHour(s, 1)
        ml == MatchMinute(s, hl + 2)
    IN  hl > 0 /\ ml > 0 /\ hl + 1 + ml = Len(s)

\* %Y of strftime: the C library's, which pads the year to four digits on
\* some platforms and prints it bare on others
FormatYear(y, pads) ==
    IF pads THEN ZeroPad(NatToChars(y), 4) ELSE NatToChars(y)

\* strftime("%Y-%m-%d")
StrftimeDate(date, pads) ==
    FormatYear(date.y, pads) \o <<"-">> \o ZeroPad(NatToChars(date.m), 2)
        \o <<"-">> \o ZeroPad(NatToChars(date.d), 2)

\* timedelta(days=n) accepts |n| <= 999999999
MaxDeltaDays == 999999999

(***************************************************************************)
(* Calendar MCP Server.                                                    *)
(***************************************************************************)
\* the operation names of list_tools, in its order
CalendarTools ==
    <<"get_current_date", "get_today", "get_yesterday", "get_tomorrow",
      "get_date_info", "add_days_to_date", "get_days_between_dates",
      "schedule_reminder">>

\* Tool(name=..., inputSchema={..., "required": [...]})
Tool(name, required) == [name |-> name, required |-> required]

\* a registry that lists one operation name twice: a variant that the
\* listing property must tell from ListCalendarTools
ListCalendarToolsRepeating ==
    <<Tool("get_current_date", <<>>),
      Tool("get_today", <<>>),
      Tool("get_today", <<>>)>>

\* list_tools of the calendar server: the descriptors, in order
ListCalendarTools ==
    <<Tool("get_current_date", <<>>),
      Tool("get_today", <<>>),
      Tool("get_yesterday", <<>>),
      Tool("get_tomorrow", <<>>),
      Tool("get_date_info", <<"date_string">>),
      Tool("add_days_to_date", <<"date_string", "days">>),
      Tool("get_days_between_dates", <<"start_date", "end_date">>),
      Tool("schedule_reminder", <<"title", "date", "time">>)>>

\* an argument mapping with no key
NoCalArgs ==
    [date_string |-> Missing, days |-> Missing, start_date |-> Missing,
     end_date |-> Missing, title |-> Missing, date |-> Missing,
     time |-> Missing]

\* datetime + timedelta(days=n): the new ordinal, or 0 for an OverflowError
AddDaysOrd(ordinal, n) ==
    LET r == ordinal + n IN IF r < 1 \/ r > MaxOrdinal THEN 0 ELSE r

\* get_yesterday as it was before the fix noted in the source, adding the
\* day: a variant that the yesterday property must tell from YesterdayOf
YesterdayOfAdding(clock) ==
    Ord2Ymd(AddDaysOrd(Ymd2Ord(clock.y, clock.m, clock.d), 1))

\* the date of datetime.now() - timedelta(days=1)
YesterdayOf(clock) ==
    Ord2Ymd(AddDaysOrd(Ymd2Ord(clock.y, clock.m, clock.d), -1))

\* the date of datetime.now() + timedelta(days=1)
TomorrowOf(clock) ==
    Ord2Ymd(AddDaysOrd(Ymd2Ord(clock.y, clock.m, clock.d), 1))

\* strftime("%H:%M:%S") of a clock that stands at a full hour
StrftimeTime(clock) ==
    ZeroPad(NatToChars(clock.hh), 2) \o <<":", "0", "0", ":", "0", "0">>

GetCurrentDate(clock, pads) ==
    Text(<<V(StrftimeDate(clock, pads) \o <<" ">> \o StrftimeTime(clock))>>)

GetToday(clock, pads) == Text(<<V(StrftimeDate(clock, pads))>>)

GetYesterday(clock, pads) ==
    IF AddDaysOrd(Ymd2Ord(clock.y, clock.m, clock.d), -1) = 0
    THEN Raise("OverflowError")
    ELSE Text(<<V(StrftimeDate(YesterdayOf(clock), pads))>>)

GetTomorrow(clock, pads) ==
    IF AddDaysOrd(Ymd2Ord(clock.y, clock.m, clock.d), 1) = 0
    THEN Raise("OverflowError")
    ELSE Text(<<V(StrftimeDate(TomorrowOf(clock), pads))>>)

InvalidDateFormat(cs) ==
    Text(<<L("Invalid date format: "), V(cs),
           L(". Please use YYYY-MM-DD format.")>>)

GetDateInfo(date_string) ==
    IF date_string.t # "str" THEN Raise("TypeError")   \* strptime(non-str)
    ELSE
        LET p == StrptimeDate(date_string.s) IN
        IF ~p.ok THEN InvalidDateFormat(date_string.s)
        ELSE Text(<<L("Date: "), V(date_string.s), L(", Day: "),
                    L(DayNames[Weekday(Ymd2Ord(p.y, p.m, p.d)) + 1]),
                    L(", Month: "), L(MonthNames[p.m]), L(", Day: "),
                    V(IntToChars(p.d)), L(", Year: "), V(IntToChars(p.y))>>)

AddDaysToDate(date_string, days, pads) ==
    IF date_string.t # "str" THEN Raise("TypeError")   \* strptime(non-str)
    ELSE
        LET p == StrptimeDate(date_string.s) IN
        IF ~p.ok THEN InvalidDateFormat(date_string.s)
        ELSE IF days.t # "int" THEN Raise("TypeError") \* timedelta(days=str)
        ELSE IF days.n > MaxDeltaDays \/ days.n < -MaxDeltaDays
             THEN Raise("OverflowError")               \* timedelta too large
        ELSE
            LET r == AddDaysOrd(Ymd2Ord(p.y, p.m, p.d), days.n) IN
            IF r = 0 THEN Raise("OverflowError")       \* date out of range
            ELSE Text(<<V(StrftimeDate(Ord2Ymd(r), pads))>>)

GetDaysBetweenDates(start_date, end_date) ==
    LET bad == Text(<<L("Invalid date format. Please use YYYY-MM-DD format for both dates.")>>)
    IN
    IF start_date.t # "str" THEN Raise("TypeError")
    ELSE IF ~StrptimeDate(start_date.s).ok THEN bad
    ELSE IF end_date.t # "str" THEN Raise("TypeError")
    ELSE IF ~StrptimeDate(end_date.s).ok THEN bad
    ELSE
        LET a == StrptimeDate(start_date.s)
            b == StrptimeDate(end_date.s)
            diff == Ymd2Ord(b.y, b.m, b.d) - Ymd2Ord(a.y, a.m, a.d)
        IN  Text(<<L("Days between "), V(start_date.s), L(" and "),
                   V(end_date.s), L(": "), V(IntToChars(diff))>>)

ScheduleReminder(title, date, time) ==
    LET bad == Text(<<L("Invalid date or time format. Use YYYY-MM-DD for date and HH:MM for time.")>>)
    IN
    IF date.t # "str" THEN Raise("TypeError")
    ELSE IF ~StrptimeDate(date.s).ok THEN bad
    ELSE IF time.t # "str" THEN Raise("TypeError")
    ELSE IF ~StrptimeTimeOk(time.s) THEN bad
    ELSE Text(<<L("Reminder scheduled: '"), V(title.s), L("' on "),
                V(date.s), L(" at "), V(time.s)>>)

\* the unknown-name text with the name left out: a variant that the
\* unknown-tool property must tell from UnknownToolText
UnknownToolTextNoName(name) == <<L("Unknown tool")>>

\* f"Unknown tool: {name}", the else branch of both call_tool dispatchers
UnknownToolText(name) == <<L("Unknown tool: "), L(name)>>

\* a dispatcher without the branch of schedule_reminder: a variant that
\* the agreement of registry and dispatcher must tell from CalendarCallTool
CalendarCallToolWithoutReminder(name, arguments, clock, pads) ==
    IF name = "get_current_date" THEN GetCurrentDate(clock, pads)
    ELSE IF name = "get_today" THEN GetToday(clock, pads)
    ELSE IF name = "get_yesterday" THEN GetYesterday(clock, pads)
    ELSE IF name = "get_tomorrow" THEN GetTomorrow(clock, pads)
    ELSE IF name = "get_date_info"
    THEN GetDateInfo(Get(arguments, "date_string", StrArg(<<>>)))
    ELSE IF name = "add_days_to_date"
    THEN AddDaysToDate(Get(arguments, "date_string", StrArg(<<>>)),
                       Get(arguments, "days", IntArg(0)), pads)
    ELSE IF name = "get_days_between_dates"
    THEN GetDaysBetweenDates(Get(arguments, "start_date", StrArg(<<>>)),
                             Get(arguments, "end_date", StrArg(<<>>)))
    ELSE Text(UnknownToolText(name))

\* call_tool of the Calendar server
CalendarCallTool(name, arguments, clock, pads) ==
    IF name = "get_current_date" THEN GetCurrentDate(clock, pads)
    ELSE IF name = "get_today" THEN GetToday(clock, pads)
    ELSE IF name = "get_yesterday" THEN GetYesterday(clock, pads)
    ELSE IF name = "get_tomorrow" THEN GetTomorrow(clock, pads)
    ELSE IF name = "get_date_info"
    THEN GetDateInfo(Get(arguments, "date_string", StrArg(<<>>)))
    ELSE IF name = "add_days_to_date"
    THEN AddDaysToDate(Get(arguments, "date_string", StrArg(<<>>)),
                       Get(arguments, "days", IntArg(0)), pads)
    ELSE IF name = "get_days_between_dates"
    THEN GetDaysBetweenDates(Get(arguments, "start_date", StrArg(<<>>)),
                             Get(arguments, "end_date", StrArg(<<>>)))
    ELSE IF name = "schedule_reminder"
    THEN ScheduleReminder(Get(arguments, "title", StrArg(<<>>)),
                          Get(arguments, "date", StrArg(<<>>)),
                          Get(arguments, "time", StrArg(<<>>)))
    ELSE Text(UnknownToolText(name))

\* the FastMCP tools with a get_yesterday that adds the day: a variant that
\* the equivalence of the two implementations must tell from
\* FastMcpCalendarTool
FastMcpCalendarToolAddingYesterday(name, arguments, clock, pads) ==
    LET today == Ymd2Ord(clock.y, clock.m, clock.d)
        invalid(cs) == Text(<<L("Invalid date format: "), V(cs),
                              L(". Please use YYYY-MM-DD format.")>>)
        shifted(n) ==
            IF AddDaysOrd(today, n) = 0 THEN Raise("OverflowError")
            ELSE Text(<<V(StrftimeDate(Ord2Ymd(AddDaysOrd(today, n)), pads))>>)
        get_date_info(date_string) ==
            IF date_string.t # "str" THEN Raise("TypeError")
            ELSE LET p == StrptimeDate(date_string.s) IN
                 IF ~p.ok THEN invalid(date_string.s)
                 ELSE Text(<<L("Date: "), V(date_string.s), L(", Day: "),
                             L(DayNames[Weekday(Ymd2Ord(p.y, p.m, p.d)) + 1]),
                             L(", Month: "), L(MonthNames[p.m]), L(", Day: "),
                             V(IntToChars(p.d)), L(", Year: "),
                             V(IntToChars(p.y))>>)
        add_days_to_date(date_string, days) ==
            IF date_string.t # "str" THEN Raise("TypeError")
            ELSE LET p == StrptimeDate(date_string.s) IN
                 IF ~p.ok THEN invalid(date_string.s)
                 ELSE IF days.t # "int" THEN Raise("TypeError")
                 ELSE IF days.n > MaxDeltaDays \/ days.n < -MaxDeltaDays
                 THEN Raise("OverflowError")
                 ELSE LET r == AddDaysOrd(Ymd2Ord(p.y, p.m, p.d), days.n) IN
                      IF r = 0 THEN Raise("OverflowError")
                      ELSE Text(<<V(StrftimeDate(Ord2Ymd(r), pads))>>)
        get_days_between_dates(start_date, end_date) ==
            LET bad == Text(<<L("Invalid date format. Please use YYYY-MM-DD format for both dates.")>>)
            IN  IF start_date.t # "str" THEN Raise("TypeError")
                ELSE IF ~StrptimeDate(start_date.s).ok THEN bad
                ELSE IF end_date.t # "str" THEN Raise("TypeError")
                ELSE IF ~StrptimeDate(end_date.s).ok THEN bad
                ELSE LET x == StrptimeDate(start_date.s)
                         y == StrptimeDate(end_date.s)
                     IN  Text(<<L("Days between "), V(start_date.s),
                                L(" and "), V(end_date.s), L(": "),
                                V(IntToChars(Ymd2Ord(y.y, y.m, y.d)
                                             - Ymd2Ord(x.y, x.m, x.d)))>>)
        schedule_reminder(title, date, time) ==
            LET bad == Text(<<L("Invalid date or time format. Use YYYY-MM-DD for date and HH:MM for time.")>>)
            IN  IF date.t # "str" THEN Raise("TypeError")
                ELSE IF ~StrptimeDate(date.s).ok THEN bad
                ELSE IF time.t # "str" THEN Raise("TypeError")
                ELSE IF ~StrptimeTimeOk(time.s) THEN bad
                ELSE Text(<<L("Reminder scheduled: '"), V(title.s),
                            L("' on "), V(date.s), L(" at "), V(time.s)>>)
    IN  IF name = "get_current_date"
        THEN Text(<<V(StrftimeDate(clock, pads) \o <<" ">>
                        \o StrftimeTime(clock))>>)
        ELSE IF name = "get_today" THEN Text(<<V(StrftimeDate(clock, pads))>>)
        ELSE IF name = "get_yesterday" THEN shifted(1)
        ELSE IF name = "get_tomorrow" THEN shifted(1)
        ELSE IF name = "get_date_info"
        THEN get_date_info(arguments.date_string)
        ELSE IF name = "add_days_to_date"
        THEN add_days_to_date(arguments.date_string, arguments.days)
        ELSE IF name = "get_days_between_dates"
        THEN get_days_between_dates(arguments.start_date, arguments.end_date)
        ELSE schedule_reminder(arguments.title, arguments.date, arguments.time)

\* the tool functions registered with FastMCP (@mcp.tool()), reached by
\* their names with the arguments of the invocation as keyword arguments
FastMcpCalendarTool(name, arguments, clock, pads) ==
    LET today == Ymd2Ord(clock.y, clock.m, clock.d)
        invalid(cs) == Text(<<L("Invalid date format: "), V(cs),
                              L(". Please use YYYY-MM-DD format.")>>)
        shifted(n) ==
            IF AddDaysOrd(today, n) = 0 THEN Raise("OverflowError")
            ELSE Text(<<V(StrftimeDate(Ord2Ymd(AddDaysOrd(today, n)), pads))>>)
        get_date_info(date_string) ==
            IF date_string.t # "str" THEN Raise("TypeError")
            ELSE LET p == StrptimeDate(date_string.s) IN
                 IF ~p.ok THEN invalid(date_string.s)
                 ELSE Text(<<L("Date: "), V(date_string.s), L(", Day: "),
                             L(DayNames[Weekday(Ymd2Ord(p.y, p.m, p.d)) + 1]),
                             L(", Month: "), L(MonthNames[p.m]), L(", Day: "),
                             V(IntToChars(p.d)), L(", Year: "),
                             V(IntToChars(p.y))>>)
        add_days_to_date(date_string, days) ==
            IF date_string.t # "str" THEN Raise("TypeError")
            ELSE LET p == StrptimeDate(date_string.s) IN
                 IF ~p.ok THEN invalid(date_string.s)
                 ELSE IF days.t # "int" THEN Raise("TypeError")
                 ELSE IF days.n > MaxDeltaDays \/ days.n < -MaxDeltaDays
                 THEN Raise("OverflowError")
                 ELSE LET r == AddDaysOrd(Ymd2Ord(p.y, p.m, p.d), days.n) IN
                      IF r = 0 THEN Raise("OverflowError")
                      ELSE Text(<<V(StrftimeDate(Ord2Ymd(r), pads))>>)
        get_days_between_dates(start_date, end_date) ==
            LET bad == Text(<<L("Invalid date format. Please use YYYY-MM-DD format for both dates.")>>)
            IN  IF start_date.t # "str" THEN Raise("TypeError")
                ELSE IF ~StrptimeDate(start_date.s).ok THEN bad
                ELSE IF end_date.t # "str" THEN Raise("TypeError")
                ELSE IF ~StrptimeDate(end_date.s).ok THEN bad
                ELSE LET x == StrptimeDate(start_date.s)
                         y == StrptimeDate(end_date.s)
                     IN  Text(<<L("Days between "), V(start_date.s),
                                L(" and "), V(end_date.s), L(": "),
                                V(IntToChars(Ymd2Ord(y.y, y.m, y.d)
                                             - Ymd2Ord(x.y, x.m, x.d)))>>)
        schedule_reminder(title, date, time) ==
            LET bad == Text(<<L("Invalid date or time format. Use YYYY-MM-DD for date and HH:MM for time.")>>)
            IN  IF date.t # "str" THEN Raise("TypeError")
                ELSE IF ~StrptimeDate(date.s).ok THEN bad
                ELSE IF time.t # "str" THEN Raise("TypeError")
                ELSE IF ~StrptimeTimeOk(time.s) THEN bad
                ELSE Text(<<L("Reminder scheduled: '"), V(title.s),
                            L("' on "), V(date.s), L(" at "), V(time.s)>>)
    IN  IF name = "get_current_date"
        THEN Text(<<V(StrftimeDate(clock, pads) \o <<" ">>
                        \o StrftimeTime(clock))>>)
        ELSE IF name = "get_today" THEN Text(<<V(StrftimeDate(clock, pads))>>)
        ELSE IF name = "get_yesterday" THEN shifted(-1)
        ELSE IF name = "get_tomorrow" THEN shifted(1)
        ELSE IF name = "get_date_info"
        THEN get_date_info(arguments.date_string)
        ELSE IF name = "add_days_to_date"
        THEN add_days_to_date(arguments.date_string, arguments.days)
        ELSE IF name = "get_days_between_dates"
        THEN get_days_between_dates(arguments.start_date, arguments.end_date)
        ELSE schedule_reminder(arguments.title, arguments.date, arguments.time)

(***************************************************************************)
(* Dropbox MCP Server.  A handler's result carries, beside the response,   *)
(* the external accesses it made in their order (environment reads, local  *)
(* file opens, SDK requests with what the vendor answered) and which       *)
(* except clause, if any, produced the response.                           *)
(***************************************************************************)
\* the operation names of list_tools, in its order
DropboxTools ==
    <<"upload_file", "download_file", "list_folder", "create_folder",
      "delete_file", "get_file_info", "create_shared_link", "search_files",
      "get_account_info">>

\* list_tools of the Dropbox server: the descriptors, in order
ListDropboxTools ==
    <<Tool("upload_file", <<"local_path", "dropbox_path">>),
      Tool("download_file", <<"dropbox_path", "local_path">>),
      Tool("list_folder", <<"folder_path">>),
      Tool("create_folder", <<"folder_path">>),
      Tool("delete_file", <<"dropbox_path">>),
      Tool("get_file_info", <<"dropbox_path">>),
      Tool("create_shared_link", <<"dropbox_path">>),
      Tool("search_files", <<"query">>),
      Tool("get_account_info", <<>>)>>

NoDbxArgs ==
    [local_path |-> Missing, dropbox_path |-> Missing, folder_path |-> Missing,
     query |-> Missing]

\* what an external call answered: a result, or an exception with a message
Ok(data) == [ok |-> TRUE, status |-> 0, data |-> data, msg |-> ""]
Err(msg) == [ok |-> FALSE, status |-> 0, data |-> "", msg |-> msg]

\* one external access
Eff(kind, name, arg, out) ==
    [kind |-> kind, name |-> name, arg |-> arg, out |-> out]

\* a handler returning normally
Done(pieces, effects) ==
    [resp |-> Text(pieces), effects |-> effects, caught |-> "none",
     excMsg |-> ""]

\* an except clause that returns its prefix without str(e): a variant that
\* the failure-text property must tell from Failed
FailedWithoutMessage(prefix, msg, effects) ==
    [resp |-> Text(<<L(prefix)>>), effects |-> effects,
     caught |-> "Exception", excMsg |-> msg]

\* the `except Exception as e` clause of a handler: prefix, then str(e)
Failed(prefix, msg, effects) ==
    [resp |-> Text(<<L(prefix), L(msg)>>), effects |-> effects,
     caught |-> "Exception", excMsg |-> msg]

TokenNotSet ==
    "DROPBOX_ACCESS_TOKEN environment variable not set. Please set this in your Render environment variables."
NoneHasNoStartswith == "'NoneType' object has no attribute 'startswith'"
OpenOfNone == "expected str, bytes or os.PathLike object, not NoneType"
NoSuchFile == "[Errno 2] No such file or directory"
NotAString == "expected a string, got None"

\* os.getenv("DROPBOX_ACCESS_TOKEN") in get_dropbox_client
GetToken(environment) ==
    Eff("getenv", "DROPBOX_ACCESS_TOKEN", Missing,
        IF "DROPBOX_ACCESS_TOKEN" \in environment THEN Ok("token")
        ELSE Err(TokenNotSet))

\* an SDK request with a path argument; the SDK refuses a path that is no
\* string, otherwise the vendor's answer `o` decides
Sdk(name, path, o) ==
    Eff("sdk", name, path, IF path.t # "str" THEN Err(NotAString) ELSE o)

\* a value interpolated into an f-string
Shown(arg) == IF arg.t = "str" THEN V(arg.s) ELSE L("None")

\* if not path.startswith("/"): path = "/" + path
WithSlash(cs) == IF At(cs, 1) = "/" THEN cs ELSE <<"/">> \o cs

\* list_folder: "/" and "" both become "", the root
FolderPath(cs) == IF cs = <<"/">> \/ cs = <<>> THEN <<>> ELSE WithSlash(cs)

\* upload_file opening the local file before it resolves the token: a
\* variant that the ordering of the two failures must tell from UploadFile
UploadFileOpeningFirst(local_path, dropbox_path, environment, w) ==
    LET e1 == <<Eff("open", "rb", local_path,
                    IF w.exists THEN Ok("bytes") ELSE Err(NoSuchFile))>>
        e2 == Append(e1, GetToken(environment))
        e3 == Append(e2, Sdk("files_upload", dropbox_path, w.sdk1))
    IN  IF local_path.t # "str"
        THEN Failed("Upload failed: ", OpenOfNone, <<>>)
        ELSE IF ~w.exists
        THEN [resp |-> Text(<<L("Local file not found: "), Shown(local_path)>>),
              effects |-> e1, caught |-> "FileNotFoundError",
              excMsg |-> NoSuchFile]
        ELSE IF ~e2[2].out.ok THEN Failed("Upload failed: ", TokenNotSet, e2)
        ELSE IF ~e3[3].out.ok
        THEN Failed("Upload failed: ", e3[3].out.msg, e3)
        ELSE Done(<<L("File uploaded successfully: "), Shown(dropbox_path)>>,
                  e3)

UploadFile(local_path, dropbox_path, environment, w) ==
    LET e1 == <<GetToken(environment)>>
        e2 == Append(e1, Eff("open", "rb", local_path,
                             IF w.exists THEN Ok("bytes") ELSE Err(NoSuchFile)))
        e3 == Append(e2, Sdk("files_upload", dropbox_path, w.sdk1))
    IN  IF ~e1[1].out.ok THEN Failed("Upload failed: ", TokenNotSet, e1)
        ELSE IF local_path.t # "str"
        THEN Failed("Upload failed: ", OpenOfNone, e1)
        ELSE IF ~w.exists
        THEN [resp |-> Text(<<L("Local file not found: "), Shown(local_path)>>),
              effects |-> e2, caught |-> "FileNotFoundError",
              excMsg |-> NoSuchFile]
        ELSE IF ~e3[3].out.ok
        THEN Failed("Upload failed: ", e3[3].out.msg, e3)
        ELSE Done(<<L("File uploaded successfully: "), Shown(dropbox_path)>>,
                  e3)

DownloadFile(dropbox_path, local_path, environment, w) ==
    LET e1 == <<GetToken(environment)>>
        e2 == Append(e1, Sdk("files_download", dropbox_path, w.sdk1))
        e3 == Append(e2, Eff("open", "wb", local_path,
                             IF w.exists THEN Ok("") ELSE Err(NoSuchFile)))
    IN  IF ~e1[1].out.ok THEN Failed("Download failed: ", TokenNotSet, e1)
        ELSE IF ~e2[2].out.ok
        THEN Failed("Download failed: ", e2[2].out.msg, e2)
        ELSE IF local_path.t # "str"
        THEN Failed("Download failed: ", OpenOfNone, e2)
        ELSE IF ~w.exists THEN Failed("Download failed: ", NoSuchFile, e3)
        ELSE Done(<<L("File downloaded successfully: "), Shown(local_path)>>,
                  e3)

ListFolder(folder_path, environment, w) ==
    LET e1 == <<GetToken(environment)>>
        path == StrArg(FolderPath(folder_path.s))
        e2 == Append(e1, Sdk("files_list_folder", path, w.sdk1))
        shown == IF path.s = <<>> THEN <<"/">> ELSE path.s
    IN  IF ~e1[1].out.ok THEN Failed("List folder failed: ", TokenNotSet, e1)
        ELSE IF folder_path.t # "str"
        THEN Failed("List folder failed: ", NoneHasNoStartswith, e1)
        ELSE IF ~e2[2].out.ok
        THEN Failed("List folder failed: ", e2[2].out.msg, e2)
        ELSE Done(<<L("Contents of "), V(shown), L(":\n")>>
                    \o (IF e2[2].out.data = "folder"
                        THEN <<L("\nFolders:\n"), L("(folders)")>> ELSE <<>>)
                    \o (IF e2[2].out.data = "file"
                        THEN <<L("\nFiles:\n"), L("(files)")>> ELSE <<>>),
                  e2)

\* create_folder and delete_file: one SDK request on the path with a slash
OnePathRequest(arg, environment, w, sdkName, prefix, success) ==
    LET e1 == <<GetToken(environment)>>
        path == StrArg(WithSlash(arg.s))
        e2 == Append(e1, Sdk(sdkName, path, w.sdk1))
    IN  IF ~e1[1].out.ok THEN Failed(prefix, TokenNotSet, e1)
        ELSE IF arg.t # "str" THEN Failed(prefix, NoneHasNoStartswith, e1)
        ELSE IF ~e2[2].out.ok THEN Failed(prefix, e2[2].out.msg, e2)
        ELSE Done(<<L(success), V(path.s)>>, e2)

CreateFolder(folder_path, environment, w) ==
    OnePathRequest(folder_path, environment, w, "files_create_folder_v2",
                   "Create folder failed: ", "Folder created successfully: ")

DeleteFile(dropbox_path, environment, w) ==
    OnePathRequest(dropbox_path, environment, w, "files_delete_v2",
                   "Delete failed: ", "Deleted successfully: ")

GetFileInfo(dropbox_path, environment, w) ==
    LET e1 == <<GetToken(environment)>>
        path == StrArg(WithSlash(dropbox_path.s))
        e2 == Append(e1, Sdk("files_get_metadata", path, w.sdk1))
    IN  IF ~e1[1].out.ok THEN Failed("Get file info failed: ", TokenNotSet, e1)
        ELSE IF dropbox_path.t # "str"
        THEN Failed("Get file info failed: ", NoneHasNoStartswith, e1)
        ELSE IF ~e2[2].out.ok
        THEN Failed("Get file info failed: ", e2[2].out.msg, e2)
        ELSE IF e2[2].out.data = "file"
        THEN Done(<<L("File Info:\nName: "), L("(file metadata)")>>, e2)
        ELSE IF e2[2].out.data = "folder"
        THEN Done(<<L("Folder Info:\nName: "), L("(folder metadata)")>>, e2)
        ELSE Done(<<L("Unknown file type: "), L("(type)")>>, e2)

\* create_shared_link creating a link whatever the listing returned: a
\* variant that the ordering of the two requests must tell from
\* CreateSharedLink
CreateSharedLinkAlwaysCreating(dropbox_path, environment, w) ==
    LET e1 == <<GetToken(environment)>>
        path == StrArg(WithSlash(dropbox_path.s))
        e3 == <<e1[1], Sdk("sharing_list_shared_links", path, w.sdk1),
                Sdk("sharing_create_shared_link_with_settings", path, w.sdk2)>>
    IN  IF ~e1[1].out.ok
        THEN Failed("Create shared link failed: ", TokenNotSet, e1)
        ELSE IF dropbox_path.t # "str"
        THEN Failed("Create shared link failed: ", NoneHasNoStartswith, e1)
        ELSE IF ~e3[3].out.ok
        THEN Failed("Create shared link failed: ", e3[3].out.msg, e3)
        ELSE Done(<<L("Shared link created: "), L("(url)")>>, e3)

\* create_shared_link asking again after the vendor refused: a variant
\* that the no-retry property must tell from CreateSharedLink
CreateSharedLinkAskingAgain(dropbox_path, environment, w) ==
    LET e1 == <<GetToken(environment)>>
        path == StrArg(WithSlash(dropbox_path.s))
        e2 == Append(e1, Sdk("sharing_list_shared_links", path, w.sdk1))
        e3 == Append(e2, Sdk("sharing_create_shared_link_with_settings", path,
                             w.sdk2))
        e4 == Append(e3, Sdk("sharing_create_shared_link_with_settings", path,
                             w.sdk2))
    IN  IF ~e1[1].out.ok
        THEN Failed("Create shared link failed: ", TokenNotSet, e1)
        ELSE IF dropbox_path.t # "str"
        THEN Failed("Create shared link failed: ", NoneHasNoStartswith, e1)
        ELSE IF e2[2].out.ok /\ e2[2].out.data = "link"
        THEN Done(<<L("Shared link: "), L("(url)")>>, e2)
        ELSE IF ~e3[3].out.ok
        THEN Failed("Create shared link failed: ", e4[4].out.msg, e4)
        ELSE Done(<<L("Shared link created: "), L("(url)")>>, e3)

CreateSharedLink(dropbox_path, environment, w) ==
    LET e1 == <<GetToken(environment)>>
        path == StrArg(WithSlash(dropbox_path.s))
        e2 == Append(e1, Sdk("sharing_list_shared_links", path, w.sdk1))
        e3 == Append(e2, Sdk("sharing_create_shared_link_with_settings", path,
                             w.sdk2))
    IN  IF ~e1[1].out.ok
        THEN Failed("Create shared link failed: ", TokenNotSet, e1)
        ELSE IF dropbox_path.t # "str"
        THEN Failed("Create shared link failed: ", NoneHasNoStartswith, e1)
        ELSE IF e2[2].out.ok /\ e2[2].out.data = "link"
        THEN Done(<<L("Shared link: "), L("(url)")>>, e2)
        ELSE IF ~e3[3].out.ok
        THEN Failed("Create shared link failed: ", e3[3].out.msg, e3)
        ELSE Done(<<L("Shared link created: "), L("(url)")>>, e3)

SearchFiles(query, environment, w) ==
    LET e1 == <<GetToken(environment)>>
        e2 == Append(e1, Sdk("files_search_v2", query, w.sdk1))
    IN  IF ~e1[1].out.ok THEN Failed("Search failed: ", TokenNotSet, e1)
        ELSE IF ~e2[2].out.ok THEN Failed("Search failed: ", e2[2].out.msg, e2)
        ELSE IF e2[2].out.data = "none"
        THEN Done(<<L("No files found matching: "), Shown(query)>>, e2)
        ELSE Done(<<L("Search results for '"), Shown(query), L("':\n"),
                    L("(matches)")>>, e2)

GetAccountInfo(environment, w) ==
    LET e1 == <<GetToken(environment)>>
        e2 == Append(e1, Eff("sdk", "users_get_current_account", Missing,
                             w.sdk1))
        e3 == Append(e2, Eff("sdk", "users_get_space_usage", Missing, w.sdk2))
    IN  IF ~e1[1].out.ok
        THEN Failed("Get account info failed: ", TokenNotSet, e1)
        ELSE IF ~w.sdk1.ok
        THEN Failed("Get account info failed: ", w.sdk1.msg, e2)
        ELSE IF ~w.sdk2.ok
        THEN Failed("Get account info failed: ", w.sdk2.msg, e3)
        ELSE IF w.sdk2.data = "team"     \* allocation.get_individual() raises
        THEN Failed("Get account info failed: ", "tag 'individual' not set", e3)
        ELSE Done(<<L("Dropbox Account Info:\nName: "), L("(account)")>>, e3)

\* call_tool of the Dropbox server; its outer `except Exception` encloses
\* every branch, and no branch lets an exception reach it
DropboxCallTool(name, arguments, environment, w) ==
    IF name = "upload_file"
    THEN UploadFile(Get(arguments, "local_path", StrArg(<<>>)),
                    Get(arguments, "dropbox_path", StrArg(<<>>)),
                    environment, w)
    ELSE IF name = "download_file"
    THEN DownloadFile(Get(arguments, "dropbox_path", StrArg(<<>>)),
                      Get(arguments, "local_path", StrArg(<<>>)),
                      environment, w)
    ELSE IF name = "list_folder"
    THEN ListFolder(Get(arguments, "folder_path", StrArg(<<>>)), environment, w)
    ELSE IF name = "create_folder"
    THEN CreateFolder(Get(arguments, "folder_path", StrArg(<<>>)),
                      environment, w)
    ELSE IF name = "delete_file"
    THEN DeleteFile(Get(arguments, "dropbox_path", StrArg(<<>>)),
                    environment, w)
    ELSE IF name = "get_file_info"
    THEN GetFileInfo(Get(arguments, "dropbox_path", StrArg(<<>>)),
                     environment, w)
    ELSE IF name = "create_shared_link"
    THEN CreateSharedLink(Get(arguments, "dropbox_path", StrArg(<<>>)),
                          environment, w)
    ELSE IF name = "search_files"
    THEN SearchFiles(Get(arguments, "query", StrArg(<<>>)), environment, w)
    ELSE IF name = "get_account_info" THEN GetAccountInfo(environment, w)
    ELSE Done(UnknownToolText(name), <<>>)

(***************************************************************************)
(* Instagram MCP Server: post_photo.                                       *)
(***************************************************************************)
\* what requests.post and response.json() give: the request raises, or
\* answers with a status and a body that is no JSON, a JSON object with an
\* "id", one with an "error" that has a "message", or an empty object
HttpRaised == Err("ConnectionError")
Http(status, body) == [ok |-> TRUE, status |-> status, data |-> body, msg |-> ""]

\* os.getenv of get_instagram_config, which reads both variables first
GetInstagramConfig(environment) ==
    <<Eff("getenv", "IG_ACCESS_TOKEN", Missing,
          IF "IG_ACCESS_TOKEN" \in environment THEN Ok("token")
          ELSE Err("IG_ACCESS_TOKEN environment variable not set")),
      Eff("getenv", "IG_PAGE_ID", Missing,
          IF "IG_PAGE_ID" \in environment THEN Ok("page")
          ELSE Err("IG_PAGE_ID environment variable not set"))>>

\* a POST to the Graph API, with the answer it got
Post(endpoint, answer) == Eff("http", endpoint, Missing, answer)

\* data.get('error', {}).get('message', 'Unknown error')
ErrorMessage(answer) ==
    IF answer.data = "error" THEN "(error.message)" ELSE "Unknown error"

\* a publish step that deletes the created media object when publishing
\* fails: a variant that the no-rollback property must tell from PublishMedia
PublishMediaRollingBack(e2, publish) ==
    LET e3 == Append(e2, Post("media_publish", publish))
        e4 == Append(e3, Eff("http", "DELETE", Missing, Http(200, "")))
    IN
    IF ~publish.ok THEN Failed("Failed to post photo: ", publish.msg, e4)
    ELSE IF publish.data = "notjson"
    THEN Failed("Failed to post photo: ", "JSONDecodeError", e4)
    ELSE IF publish.status # 200
    THEN Done(<<L("Error publishing media: "), L(ErrorMessage(publish))>>, e4)
    ELSE IF publish.data # "id"
    THEN Failed("Failed to post photo: ", "'id'", e4)
    ELSE Done(<<L("Photo posted successfully! Post ID: "), L("(id)")>>, e3)

\* the publish step, reached with the identifier the create step returned
PublishMedia(e2, publish) ==
    LET e3 == Append(e2, Post("media_publish", publish)) IN
    IF ~publish.ok THEN Failed("Failed to post photo: ", publish.msg, e3)
    ELSE IF publish.data = "notjson"
    THEN Failed("Failed to post photo: ", "JSONDecodeError", e3)
    ELSE IF publish.status # 200
    THEN Done(<<L("Error publishing media: "), L(ErrorMessage(publish))>>, e3)
    ELSE IF publish.data # "id"
    THEN Failed("Failed to post photo: ", "'id'", e3)     \* KeyError
    ELSE Done(<<L("Photo posted successfully! Post ID: "), L("(id)")>>, e3)

\* post_photo publishing whatever the create step answered: a variant that
\* the ordering property must tell from PostPhoto
PostPhotoAlwaysPublishing(environment, create, publish) ==
    LET e1 == GetInstagramConfig(environment)
        e2 == Append(e1, Post("media", create))
    IN  IF ~e1[1].out.ok
        THEN Failed("Failed to post photo: ", e1[1].out.msg, e1)
        ELSE IF ~e1[2].out.ok
        THEN Failed("Failed to post photo: ", e1[2].out.msg, e1)
        ELSE PublishMedia(e2, publish)

PostPhoto(environment, create, publish) ==
    LET e1 == GetInstagramConfig(environment)
        e2 == Append(e1, Post("media", create))
    IN  IF ~e1[1].out.ok
        THEN Failed("Failed to post photo: ", e1[1].out.msg, e1)
        ELSE IF ~e1[2].out.ok
        THEN Failed("Failed to post photo: ", e1[2].out.msg, e1)
        ELSE IF ~create.ok
        THEN Failed("Failed to post photo: ", create.msg, e2)
        ELSE IF create.data = "notjson"
        THEN Failed("Failed to post photo: ", "JSONDecodeError", e2)
        ELSE IF create.status # 200
        THEN Done(<<L("Error creating media: "), L(ErrorMessage(create))>>, e2)
        ELSE IF create.data # "id"
        THEN Failed("Failed to post photo: ", "'id'", e2)  \* KeyError
        ELSE PublishMedia(e2, publish)

\* os.getenv("IG_USER_ID"), which gives None when the variable is not set
UserId(environment) ==
    IF "IG_USER_ID" \in environment THEN StrArg(<<"u">>) ELSE NullArg

\* get_hashtag_insights going on to the recent media whatever the details
\* request answered: a variant that the ordering of the three requests must
\* tell from GetHashtagInsights
GetHashtagInsightsUnchecked(environment, search, insights, media) ==
    LET prefix == "Failed to get hashtag insights: "
        e1 == GetInstagramConfig(environment)
        e2 == e1 \o <<Eff("getenv", "IG_USER_ID", Missing, Ok("")),
                      Eff("http", "ig_hashtag_search", UserId(environment),
                          search)>>
        e3 == Append(e2, Eff("http", "hashtag", Missing, insights))
        e4 == e3 \o <<Eff("getenv", "IG_USER_ID", Missing, Ok("")),
                      Eff("http", "recent_media", UserId(environment), media)>>
        head == <<L("Hashtag Insights for #"), L("(hashtag)"), L(":\n"),
                  L("Hashtag ID: "), L("(id)"), L("\n\n")>>
    IN  IF ~e1[1].out.ok THEN Failed(prefix, e1[1].out.msg, e1)
        ELSE IF ~e1[2].out.ok THEN Failed(prefix, e1[2].out.msg, e1)
        ELSE IF ~search.ok THEN Failed(prefix, search.msg, e2)
        ELSE IF search.data = "notjson"
        THEN Failed(prefix, "JSONDecodeError", e2)
        ELSE IF search.status # 200 \/ search.data # "data"
        THEN Done(<<L("Could not find hashtag: #"), L("(hashtag)")>>, e2)
        ELSE IF ~insights.ok THEN Failed(prefix, insights.msg, e3)
        ELSE IF insights.data = "notjson"
        THEN Failed(prefix, "JSONDecodeError", e3)
        ELSE IF ~media.ok THEN Failed(prefix, media.msg, e4)
        ELSE IF media.data = "notjson"
        THEN Failed(prefix, "JSONDecodeError", e4)
        ELSE IF media.status = 200 /\ media.data = "data"
        THEN Done(head \o <<L("Recent posts using #"), L("(hashtag)"),
                            L(":\n"), L("(posts)")>>, e4)
        ELSE Done(Append(head, L("No recent media found for this hashtag")),
                  e4)

\* get_hashtag_insights: the search for the hashtag's id, the request for
\* the hashtag, and the request for its recent media, against what the
\* Graph API answers to each.  A body "data" is a JSON object with a
\* non-empty 'data' list.
GetHashtagInsights(environment, search, insights, media) ==
    LET prefix == "Failed to get hashtag insights: "
        e1 == GetInstagramConfig(environment)
        e2 == e1 \o <<Eff("getenv", "IG_USER_ID", Missing, Ok("")),
                      Eff("http", "ig_hashtag_search", UserId(environment),
                          search)>>
        e3 == Append(e2, Eff("http", "hashtag", Missing, insights))
        e4 == e3 \o <<Eff("getenv", "IG_USER_ID", Missing, Ok("")),
                      Eff("http", "recent_media", UserId(environment), media)>>
        head == <<L("Hashtag Insights for #"), L("(hashtag)"), L(":\n"),
                  L("Hashtag ID: "), L("(id)"), L("\n\n")>>
    IN  IF ~e1[1].out.ok THEN Failed(prefix, e1[1].out.msg, e1)
        ELSE IF ~e1[2].out.ok THEN Failed(prefix, e1[2].out.msg, e1)
        ELSE IF ~search.ok THEN Failed(prefix, search.msg, e2)
        ELSE IF search.data = "notjson"
        THEN Failed(prefix, "JSONDecodeError", e2)
        ELSE IF search.status # 200 \/ search.data # "data"
        THEN Done(<<L("Could not find hashtag: #"), L("(hashtag)")>>, e2)
        ELSE IF ~insights.ok THEN Failed(prefix, insights.msg, e3)
        ELSE IF insights.data = "notjson"
        THEN Failed(prefix, "JSONDecodeError", e3)
        ELSE IF insights.status # 200
        THEN Done(<<L("Error getting hashtag insights: "),
                    L(ErrorMessage(insights))>>, e3)
        ELSE IF ~media.ok THEN Failed(prefix, media.msg, e4)
        ELSE IF media.data = "notjson"
        THEN Failed(prefix, "JSONDecodeError", e4)
        ELSE IF media.status = 200 /\ media.data = "data"
        THEN Done(head \o <<L("Recent posts using #"), L("(hashtag)"),
                            L(":\n"), L("(posts)")>>, e4)
        ELSE Done(Append(head, L("No recent media found for this hashtag")),
                  e4)

(***************************************************************************)
(* PDF Tools MCP Server.  A temporary file is a number and the suffix it   *)
(* was made with; `files` is the set of them on disk.  The world `w` of an *)
(* invocation says what the environment does: whether the PDF libraries    *)
(* import, what the download answers, whether writing a temporary file     *)
(* succeeds, whether PyPDF2 can read the document, how many pages it has   *)
(* and whether PdfWriter.write succeeds.                                   *)
(***************************************************************************)
LibsMissing == "Required PDF libraries not installed. Install with: pip install PyPDF2 reportlab. Error: (e)"
NoSpace == "[Errno 28] No space left on device"
ReadError == "PdfReadError"
WriteError == "PdfWriter.write failed"
IndexError == "sequence index out of range"

\* a temporary file always given the same name: a variant that the
\* isolation property must tell from NewTmp
NewTmpSameName(files, suffix) == [n |-> 1, suffix |-> suffix]

\* tempfile.NamedTemporaryFile(suffix=..., delete=False): a file not yet on
\* disk
NewTmp(files, suffix) ==
    [n |-> CHOOSE k \in 1..(Cardinality(files) + 1) :
               /\ k \notin {f.n : f \in files}
               /\ \A j \in 1..(k - 1) : j \in {f.n : f \in files},
     suffix |-> suffix]

Mk(f) == Eff("mkstemp", f.suffix, IntArg(f.n), Ok(""))
Unlink(f) == Eff("unlink", f.suffix, IntArg(f.n), Ok(""))
Fetch(answer) == Eff("http", "GET", Missing, answer)

\* the result of a PDF handler: the response, and the disk it leaves
PdfOut(r, files, created, extracted) ==
    [resp |-> r.resp, effects |-> r.effects, caught |-> r.caught,
     excMsg |-> r.excMsg, files |-> files, created |-> created,
     extracted |-> extracted]

DownloadFailed == <<L("Failed to download PDF from "), L("(pdf_url)")>>

\* extract_text_from_pdf, get_pdf_info and search_pdf_text: download, save
\* to a temporary file, then try: read ... finally: os.unlink(temp_path).
\* `body` is what the try block does with a readable document.
ReadPdf(prefix, files, w, body) ==
    LET f1 == NewTmp(files, ".pdf")
        e1 == <<Fetch(w.http)>>
        e2 == Append(e1, Mk(f1))
        e3 == Append(e2, Unlink(f1))
    IN  IF ~w.libs THEN PdfOut(Failed(prefix, LibsMissing, <<>>), files, {}, <<>>)
        ELSE IF ~w.http.ok
        THEN PdfOut(Failed(prefix, w.http.msg, e1), files, {}, <<>>)
        ELSE IF w.http.status # 200
        THEN PdfOut(Done(DownloadFailed, e1), files, {}, <<>>)
        ELSE IF ~w.write     \* temp_file.write raises before the try block
        THEN PdfOut(Failed(prefix, NoSpace, e2), files \cup {f1}, {f1}, <<>>)
        ELSE IF ~w.reader
        THEN PdfOut(Failed(prefix, ReadError, e3), files, {f1}, <<>>)
        ELSE IF body.exc # ""
        THEN PdfOut(Failed(prefix, body.exc, e3), files, {f1}, <<>>)
        ELSE PdfOut(Done(body.pieces, e3), files, {f1}, <<>>)

ExtractTextFromPdf(files, w) ==
    ReadPdf("Failed to extract text from PDF: ", files, w,
            [exc |-> "",
             pieces |-> <<L("PDF Text Extraction Results:\n"),
                          L("Total Pages: "), V(IntToChars(w.pages))>>])

GetPdfInfo(files, w) ==
    ReadPdf("Failed to get PDF info: ", files, w,
            [exc |-> IF w.pages = 0 THEN IndexError ELSE "",  \* pages[0]
             pieces |-> <<L("PDF Information:\n"), L("Total Pages: "),
                          V(IntToChars(w.pages))>>])

SearchPdfText(files, w) ==
    ReadPdf("Failed to search PDF: ", files, w,
            [exc |-> "",
             pieces |-> <<L("PDF Search Results:\n"), L("Total Pages: "),
                          V(IntToChars(w.pages))>>])

\* range(start_page, end_page), without the conversion to 0-based indices:
\* a variant that the page-count property must tell from PageIndices
PageIndicesUnconverted(start_page, end_page) ==
    [i \in 1..(end_page - start_page) |-> start_page + (i - 1)]

\* range(start_page - 1, end_page), the 0-based indices of the pages added
PageIndices(start_page, end_page) ==
    [i \in 1..(end_page - (start_page - 1)) |-> (start_page - 1) + (i - 1)]

\* the validation without its upper bound: a variant that the page-range
\* property must tell from InvalidRange
InvalidRangeNoUpperBound(start_page, end_page, total_pages) ==
    start_page < 1 \/ start_page > end_page

\* the validation of split_pdf_pages
InvalidRange(start_page, end_page, total_pages) ==
    start_page < 1 \/ end_page > total_pages \/ start_page > end_page

SplitPdfPages(start_page, end_page, files, w) ==
    LET prefix == "Failed to split PDF: "
        f1 == NewTmp(files, ".pdf")
        f2 == NewTmp(files \cup {f1}, "_split.pdf")
        e1 == <<Fetch(w.http)>>
        e2 == Append(e1, Mk(f1))
        e3 == Append(e2, Mk(f2))
        \* the 1-based numbers of the pages given to PdfWriter.add_page
        added == [i \in DOMAIN PageIndices(start_page, end_page) |->
                     PageIndices(start_page, end_page)[i] + 1]
    IN  IF ~w.libs THEN PdfOut(Failed(prefix, LibsMissing, <<>>), files, {}, <<>>)
        ELSE IF ~w.http.ok
        THEN PdfOut(Failed(prefix, w.http.msg, e1), files, {}, <<>>)
        ELSE IF w.http.status # 200
        THEN PdfOut(Done(DownloadFailed, e1), files, {}, <<>>)
        ELSE IF ~w.write
        THEN PdfOut(Failed(prefix, NoSpace, e2), files \cup {f1}, {f1}, <<>>)
        ELSE IF ~w.reader
        THEN PdfOut(Failed(prefix, ReadError, Append(e2, Unlink(f1))), files,
                    {f1}, <<>>)
        ELSE IF InvalidRange(start_page, end_page, w.pages)
        THEN PdfOut(Done(<<L("Invalid page range: "),
                           V(IntToChars(start_page)), L("-"),
                           V(IntToChars(end_page)), L(". PDF has "),
                           V(IntToChars(w.pages)), L(" pages.")>>,
                         Append(e2, Unlink(f1))),
                    files, {f1}, <<>>)
        ELSE IF ~w.out       \* pdf_writer.write(output_file) raises
        THEN PdfOut(Failed(prefix, WriteError, Append(e3, Unlink(f1))),
                    files \cup {f2}, {f1, f2}, added)
        ELSE PdfOut(Done(<<L("PDF Split Results:\n"), L("Original Pages: "),
                           V(IntToChars(w.pages)), L("Extracted Pages: "),
                           V(IntToChars(start_page)), L("-"),
                           V(IntToChars(end_page)), L(" ("),
                           V(IntToChars(end_page - start_page + 1)),
                           L(" pages)")>>,
                         e3 \o <<Unlink(f2), Unlink(f1)>>),
                    files, {f1, f2}, added)

\* create_pdf_from_text: the file is made empty, then try: draw and save
\* ... finally: if os.path.exists(temp_path): os.unlink(temp_path)
CreatePdfFromText(files, w) ==
    LET prefix == "Failed to create PDF: "
        f1 == NewTmp(files, ".pdf")
        e2 == <<Mk(f1), Unlink(f1)>>
    IN  IF ~w.libs THEN PdfOut(Failed(prefix, LibsMissing, <<>>), files, {}, <<>>)
        ELSE IF ~w.out       \* the canvas cannot be saved
        THEN PdfOut(Failed(prefix, WriteError, e2), files, {f1}, <<>>)
        ELSE PdfOut(Done(<<L("PDF Creation Results:\n"), L("(sizes)")>>, e2),
                    files, {f1}, <<>>)

RECURSIVE UnlinkAll(_)
\* the finally block of merge_pdfs, over temp_files
UnlinkAll(temp) ==
    IF temp = <<>> THEN <<>> ELSE <<Unlink(Head(temp))>> \o UnlinkAll(Tail(temp))

SeqRange(q) == {q[i] : i \in DOMAIN q}

RECURSIVE MergeLoop(_, _, _, _, _, _, _)
\* the loop of merge_pdfs from its i-th URL on, `temp` being temp_files,
\* `leaked` the files made but never listed in it, `merged` the pages given
\* to the writer as <<document, page>>, and then the rest of the handler
MergeLoop(i, urls, files, temp, leaked, eff, merged) ==
    LET prefix == "Failed to merge PDFs: "
        disk == files \cup SeqRange(temp) \cup leaked
        after == files \cup leaked    \* what is on disk after the finally
        made == SeqRange(temp) \cup leaked
    IN
    IF i > Len(urls)
    THEN LET fo == NewTmp(disk, "_merged.pdf")
             e1 == Append(eff, Mk(fo))
         IN  IF ~urls[1].out  \* pdf_writer.write(output_file) raises
             THEN PdfOut(Failed(prefix, WriteError, e1 \o UnlinkAll(temp)),
                         after \cup {fo}, made \cup {fo}, merged)
             ELSE PdfOut(Done(<<L("PDF Merge Results:\n"), L("Source PDFs: "),
                                V(IntToChars(Len(urls))), L("Total Pages: "),
                                V(IntToChars(Len(merged)))>>,
                              e1 \o <<Unlink(fo)>> \o UnlinkAll(temp)),
                         after, made \cup {fo}, merged)
    ELSE
        LET u == urls[i]
            f == NewTmp(disk, IF i = 1 THEN "_0.pdf" ELSE "_1.pdf")
            e1 == Append(eff, Fetch(u.http))
            e2 == Append(e1, Mk(f))
        IN  IF ~u.http.ok
            THEN PdfOut(Failed(prefix, u.http.msg, e1 \o UnlinkAll(temp)),
                        after, made, merged)
            ELSE IF u.http.status # 200
            THEN PdfOut(Done(DownloadFailed, e1 \o UnlinkAll(temp)), after,
                        made, merged)
            ELSE IF ~u.write  \* raises before temp_files.append(temp_path)
            THEN PdfOut(Failed(prefix, NoSpace, e2 \o UnlinkAll(temp)),
                        after \cup {f}, made \cup {f}, merged)
            ELSE IF ~u.reader
            THEN PdfOut(Failed(prefix, ReadError,
                               e2 \o UnlinkAll(Append(temp, f))),
                        after, made \cup {f}, merged)
            ELSE MergeLoop(i + 1, urls, files, Append(temp, f), leaked, e2,
                           merged \o [p \in 1..u.pages |-> <<i, p>>])

\* merge_pdfs over the worlds of its URLs; with no URL the writer is saved
\* empty
MergePdfs(urls, files, w) ==
    IF ~w.libs
    THEN PdfOut(Failed("Failed to merge PDFs: ", LibsMissing, <<>>), files, {},
                <<>>)
    ELSE IF urls = <<>>
    THEN LET fo == NewTmp(files, "_merged.pdf") IN
         IF ~w.out
         THEN PdfOut(Failed("Failed to merge PDFs: ", WriteError, <<Mk(fo)>>),
                     files \cup {fo}, {fo}, <<>>)
         ELSE PdfOut(Done(<<L("PDF Merge Results:\n"), L("Source PDFs: "),
                            V(IntToChars(0)), L("Total Pages: "),
                            V(IntToChars(0))>>, <<Mk(fo), Unlink(fo)>>),
                     files, {fo}, <<>>)
    ELSE MergeLoop(1, [i \in DOMAIN urls |-> [urls[i] EXCEPT !.out = w.out]],
                   files, <<>>, {}, <<>>, <<>>)

(***************************************************************************)
(* The Calendar process.  The server keeps no state of its own: what an    *)
(* invocation returns depends on its arguments, on the instant the clock   *)
(* shows when datetime.now() is read, and on the platform's strftime.      *)
(***************************************************************************)
NoClock == [y |-> 0, m |-> 0, d |-> 0, hh |-> 0]

NoCalCall ==
    [name |-> "", args |-> NoCalArgs, clock |-> NoClock, resp |-> NoResponse]

\* the calendar day after `date`, by the rules of the calendar
NextCalendarDate(date) ==
    IF date.d < DaysInMonth(date.y, date.m)
    THEN [date EXCEPT !.d = date.d + 1]
    ELSE IF date.m < 12
    THEN [date EXCEPT !.m = date.m + 1, !.d = 1]
    ELSE [date EXCEPT !.y = date.y + 1, !.m = 1, !.d = 1]

\* the first days of the periods the clock is read in: before a year's end,
\* before a leap day and before the end of a February without one
StartDates ==
    { [y |-> 2023, m |-> 12, d |-> 30, hh |-> 0],
      [y |-> 2024, m |-> 2, d |-> 27, hh |-> 0],
      [y |-> 2100, m |-> 2, d |-> 27, hh |-> 0] }

RECURSIVE Window(_, _)
Window(date, k) ==
    IF k = 0 THEN {date} ELSE {date} \cup Window(NextCalendarDate(date), k - 1)

\* the instants datetime.now() may show: midnight and 23:00 of each day
Instants ==
    { [t EXCEPT !.hh = h] :
        t \in UNION { Window(s, MaxTicks) : s \in StartDates }, h \in {0, 23} }

\* date strings a caller sends
DateStrings ==
    { <<"2", "0", "2", "4", "-", "0", "2", "-", "2", "8">>,
      <<"2", "0", "2", "4", "-", "1", "-", "5">>,
      <<"0", "9", "9", "9", "-", "1", "2", "-", "3", "1">>,
      <<"9", "9", "9", "9", "-", "1", "2", "-", "3", "1">>,
      <<"1", "3", "/", "4", "0", "/", "2", "0", "2", "4">>,
      <<"2", "0", "2", "4", "-", "0", "2", "-", "3", "0">> }

\* time strings a caller sends
TimeStrings ==
    { <<"0", "9", ":", "3", "0">>, <<"9", ":", "5">>,
      <<"2", "4", ":", "0", "0">> }

\* day counts a caller sends
DayCounts == {-1, 0, 1, 366, 10000000}

\* the date add_days_to_date has just returned, which the caller may pass
\* on to get_days_between_dates
HeldDate ==
    IF /\ calLast.name = "add_days_to_date"
       /\ calLast.resp.kind = "text"
       /\ Len(calLast.resp.text) = 1
    THEN {StrArg(calLast.resp.text[1].val)}
    ELSE {}

DateArgs == {StrArg(s) : s \in DateStrings} \cup {NullArg, Missing}
TimeArgs == {StrArg(s) : s \in TimeStrings} \cup {Missing}
DaysArgs ==
    {IntArg(n) : n \in DayCounts} \cup {StrArg(<<"3">>), NullArg, Missing}

UnknownNames == {"", "no_such_tool", "post_photo"}

\* one invocation of the Calendar server's call_tool, the clock showing T
CalInvoke(name, arguments, T) ==
    /\ server = "calendar"
    /\ calLast' =
          [name |-> name, args |-> arguments, clock |-> T,
           resp |-> CalendarCallTool(name, arguments, T, libcPadsYear)]
    /\ calPrev' =
          IF /\ name = "get_days_between_dates"
             /\ HeldDate # {}
             /\ (arguments.start_date \in HeldDate
                    \/ arguments.end_date \in HeldDate)
          THEN calLast ELSE NoCalCall
    /\ UNCHANGED <<cfgVars, depVars, server, listed, libcPadsYear, env, dbxVars, igVars, pdfVars>>

CallGetCurrentDate ==
    \E T \in Instants : CalInvoke("get_current_date", NoCalArgs, T)

CallGetToday == \E T \in Instants : CalInvoke("get_today", NoCalArgs, T)

CallGetYesterday ==
    \E T \in Instants : CalInvoke("get_yesterday", NoCalArgs, T)

CallGetTomorrow == \E T \in Instants : CalInvoke("get_tomorrow", NoCalArgs, T)

CallGetDateInfo ==
    \E ds \in DateArgs :
        CalInvoke("get_date_info", [NoCalArgs EXCEPT !.date_string = ds],
                  NoClock)

CallAddDaysToDate ==
    \E ds \in DateArgs, n \in DaysArgs :
        CalInvoke("add_days_to_date",
                  [NoCalArgs EXCEPT !.date_string = ds, !.days = n], NoClock)

CallGetDaysBetweenDates ==
    \E a \in DateArgs \cup HeldDate, b \in DateArgs \cup HeldDate :
        CalInvoke("get_days_between_dates",
                  [NoCalArgs EXCEPT !.start_date = a, !.end_date = b],
                  NoClock)

CallScheduleReminder ==
    \E ds \in DateArgs, tm \in TimeArgs :
        CalInvoke("schedule_reminder",
                  [NoCalArgs EXCEPT !.title = StrArg(<<"x">>), !.date = ds,
                                    !.time = tm], NoClock)

CallUnknownCalendarTool ==
    \E name \in UnknownNames, ds \in {Missing, NullArg} :
        CalInvoke(name, [NoCalArgs EXCEPT !.date_string = ds], NoClock)

\* list_tools of the Calendar server: builds and returns the descriptors
CalendarListTools ==
    /\ server = "calendar"
    /\ listed' = ListCalendarTools
    /\ UNCHANGED <<cfgVars, depVars, server, env, calVars, dbxVars, igVars, pdfVars>>

NextCalendar ==
    \/ CalendarListTools
    \/ CallGetCurrentDate
    \/ CallGetToday
    \/ CallGetYesterday
    \/ CallGetTomorrow
    \/ CallGetDateInfo
    \/ CallAddDaysToDate
    \/ CallGetDaysBetweenDates
    \/ CallScheduleReminder
    \/ CallUnknownCalendarTool

(***************************************************************************)
(* The Dropbox process.  Each invocation meets a world: whether the local  *)
(* path can be opened and what the vendor answers to the SDK requests.     *)
(***************************************************************************)
NoDbxWorld == [exists |-> FALSE, sdk1 |-> Ok(""), sdk2 |-> Ok("")]

NoDbxCall ==
    [name |-> "", args |-> NoDbxArgs, w |-> NoDbxWorld, resp |-> NoResponse,
     effects |-> <<>>, caught |-> "none", excMsg |-> ""]

\* paths a caller sends
PathArgs ==
    {StrArg(<<"/", "a">>), StrArg(<<"a">>), StrArg(<<"/">>), StrArg(<<>>),
     NullArg, Missing}
LocalPathArgs == {StrArg(<<"f">>), NullArg, Missing}

ApiError == Err("ApiError")

\* whether open() can succeed on the path
MayExist(local_path) ==
    IF local_path.t = "str" /\ local_path.s # <<>> THEN BOOLEAN ELSE {FALSE}

DbxInvoke(name, arguments, w) ==
    /\ server = "dropbox"
    /\ dbxLast' =
          LET r == DropboxCallTool(name, arguments, env, w) IN
          [name |-> name, args |-> arguments, w |-> w, resp |-> r.resp,
           effects |-> r.effects, caught |-> r.caught, excMsg |-> r.excMsg]
    /\ UNCHANGED <<cfgVars, depVars, server, listed, env, calVars, igVars, pdfVars>>

\* requests on one path argument answered by one SDK request
OnePath(name, key, answers) ==
    \E p \in PathArgs, o \in answers :
        DbxInvoke(name, [NoDbxArgs EXCEPT ![key] = p],
                  [NoDbxWorld EXCEPT !.sdk1 = o])

CallUploadFile ==
    \E lp \in LocalPathArgs,
       dp \in {StrArg(<<"/", "a">>), StrArg(<<"a">>), NullArg, Missing},
       o \in {Ok(""), ApiError} :
        \E x \in MayExist(lp) :
            DbxInvoke("upload_file",
                      [NoDbxArgs EXCEPT !.local_path = lp, !.dropbox_path = dp],
                      [NoDbxWorld EXCEPT !.exists = x, !.sdk1 = o])

CallDownloadFile ==
    \E lp \in LocalPathArgs,
       dp \in {StrArg(<<"/", "a">>), StrArg(<<"a">>), NullArg, Missing},
       o \in {Ok(""), ApiError} :
        \E x \in MayExist(lp) :
            DbxInvoke("download_file",
                      [NoDbxArgs EXCEPT !.local_path = lp, !.dropbox_path = dp],
                      [NoDbxWorld EXCEPT !.exists = x, !.sdk1 = o])

CallListFolder ==
    OnePath("list_folder", "folder_path",
            {Ok("file"), Ok("folder"), Ok("none"), ApiError})

CallCreateFolder == OnePath("create_folder", "folder_path", {Ok(""), ApiError})

CallDeleteFile == OnePath("delete_file", "dropbox_path", {Ok(""), ApiError})

CallGetFileInfo ==
    OnePath("get_file_info", "dropbox_path",
            {Ok("file"), Ok("folder"), Ok("other"), ApiError})

CallCreateSharedLink ==
    \E p \in PathArgs,
       o1 \in {Ok("link"), Ok("none"), Err("ListSharedLinksError")},
       o2 \in {Ok("link"), ApiError} :
        DbxInvoke("create_shared_link", [NoDbxArgs EXCEPT !.dropbox_path = p],
                  [NoDbxWorld EXCEPT !.sdk1 = o1, !.sdk2 = o2])

CallSearchFiles ==
    \E q \in {StrArg(<<"a">>), StrArg(<<>>), NullArg, Missing},
       o \in {Ok("file"), Ok("none"), ApiError} :
        DbxInvoke("search_files", [NoDbxArgs EXCEPT !.query = q],
                  [NoDbxWorld EXCEPT !.sdk1 = o])

CallGetAccountInfo ==
    \E o1 \in {Ok(""), ApiError},
       o2 \in {Ok("individual"), Ok("team"), ApiError} :
        DbxInvoke("get_account_info", NoDbxArgs,
                  [NoDbxWorld EXCEPT !.sdk1 = o1, !.sdk2 = o2])

CallUnknownDropboxTool ==
    \E name \in UnknownNames, p \in {StrArg(<<"/", "a">>), Missing} :
        DbxInvoke(name, [NoDbxArgs EXCEPT !.dropbox_path = p], NoDbxWorld)

\* list_tools of the Dropbox server: builds and returns the descriptors
DropboxListTools ==
    /\ server = "dropbox"
    /\ listed' = ListDropboxTools
    /\ UNCHANGED <<cfgVars, depVars, server, env, calVars, dbxVars, igVars, pdfVars>>

NextDropbox ==
    \/ DropboxListTools
    \/ CallUploadFile
    \/ CallDownloadFile
    \/ CallListFolder
    \/ CallCreateFolder
    \/ CallDeleteFile
    \/ CallGetFileInfo
    \/ CallCreateSharedLink
    \/ CallSearchFiles
    \/ CallGetAccountInfo
    \/ CallUnknownDropboxTool

(***************************************************************************)
(* The Instagram process: post_photo against what the Graph API answers.   *)
(***************************************************************************)
NoIgCall ==
    [name |-> "", create |-> Ok(""), publish |-> Ok(""), answers |-> <<>>,
     resp |-> NoResponse, effects |-> <<>>, caught |-> "none", excMsg |-> ""]

\* the answers of the Graph API to one request
Answers ==
    {HttpRaised, Http(200, "id"), Http(200, "empty"), Http(200, "notjson"),
     Http(400, "error"), Http(400, "empty"), Http(500, "notjson")}

CallPostPhoto ==
    /\ server = "instagram"
    /\ \E create \in Answers, publish \in Answers :
          igLast' =
             LET r == PostPhoto(env, create, publish) IN
             [name |-> "post_photo", create |-> create, publish |-> publish,
              answers |-> <<create, publish>>, resp |-> r.resp, effects |-> r.effects, caught |-> r.caught,
              excMsg |-> r.excMsg]
    /\ UNCHANGED <<cfgVars, depVars, server, listed, env, calVars, dbxVars, pdfVars>>

CallGetHashtagInsights ==
    /\ server = "instagram"
    /\ \E search \in {HttpRaised, Http(200, "data"), Http(200, "empty"),
                      Http(400, "error")},
          insights \in {HttpRaised, Http(200, "id"), Http(400, "error"),
                        Http(400, "empty")},
          media \in {HttpRaised, Http(200, "data"), Http(200, "empty"),
                     Http(200, "notjson"), Http(400, "error")} :
          igLast' =
             LET r == GetHashtagInsights(env, search, insights, media) IN
             [name |-> "get_hashtag_insights", create |-> Ok(""),
              publish |-> Ok(""), answers |-> <<search, insights, media>>,
              resp |-> r.resp, effects |-> r.effects, caught |-> r.caught,
              excMsg |-> r.excMsg]
    /\ UNCHANGED <<cfgVars, depVars, server, listed, env, calVars, dbxVars, pdfVars>>

NextInstagram == CallPostPhoto \/ CallGetHashtagInsights

(***************************************************************************)
(* The PDF Tools process.  The handlers run one after the other on the     *)
(* same disk; a run is followed until MaxLeaked temporary files are left.  *)
(***************************************************************************)
PdfWorld(libs, http, write, reader, pages, out) ==
    [libs |-> libs, http |-> http, write |-> write, reader |-> reader,
     pages |-> pages, out |-> out]

\* a document of `pages` pages that downloads and reads
GoodPdf(pages, out) == PdfWorld(TRUE, Http(200, "pdf"), TRUE, TRUE, pages, out)

\* the worlds in which a handler fails before it has a readable document
EarlyWorlds ==
    { PdfWorld(FALSE, Http(200, "pdf"), TRUE, TRUE, 1, TRUE),
      PdfWorld(TRUE, HttpRaised, TRUE, TRUE, 1, TRUE),
      PdfWorld(TRUE, Http(404, ""), TRUE, TRUE, 1, TRUE),
      PdfWorld(TRUE, Http(200, "pdf"), FALSE, TRUE, 1, TRUE),
      PdfWorld(TRUE, Http(200, "pdf"), TRUE, FALSE, 1, TRUE) }

ReadWorlds == EarlyWorlds \cup {GoodPdf(n, TRUE) : n \in 0..MaxPages}

\* what one URL of merge_pdfs meets
UrlWorlds ==
    {w \in EarlyWorlds : w.libs} \cup {GoodPdf(1, TRUE), GoodPdf(MaxPages, TRUE)}

UrlLists ==
    {<<>>} \cup {<<u>> : u \in UrlWorlds}
           \cup {<<u, v>> : u \in UrlWorlds, v \in UrlWorlds}

NoPdfCall ==
    [name |-> "", start |-> 0, end |-> 0, urls |-> <<>>,
     w |-> GoodPdf(0, TRUE), resp |-> NoResponse, effects |-> <<>>,
     caught |-> "none", excMsg |-> "", created |-> {}, extracted |-> <<>>]

\* the document split_pdf_pages has just written, which the caller may
\* host and pass on to merge_pdfs
HeldPdf ==
    IF /\ pdfLast.name = "split_pdf_pages"
       /\ pdfLast.caught = "none"
       /\ pdfLast.extracted # <<>>
    THEN {GoodPdf(Len(pdfLast.extracted), TRUE)}
    ELSE {}

PdfInvoke(name, start, end, urls, w, r) ==
    /\ server = "pdf"
    /\ Cardinality(tmpFiles) < MaxLeaked
    /\ pdfLast' =
          [name |-> name, start |-> start, end |-> end, urls |-> urls,
           w |-> w, resp |-> r.resp, effects |-> r.effects,
           caught |-> r.caught, excMsg |-> r.excMsg, created |-> r.created,
           extracted |-> r.extracted]
    /\ tmpFiles' = r.files
    /\ pdfPrev' =
          IF name = "merge_pdfs" /\ Len(urls) = 1 /\ urls[1] \in HeldPdf
          THEN pdfLast ELSE NoPdfCall
    /\ UNCHANGED <<cfgVars, depVars, server, listed, env, calVars, dbxVars, igVars, tasks>>

CallExtractTextFromPdf ==
    \E w \in ReadWorlds :
        PdfInvoke("extract_text_from_pdf", 0, 0, <<>>, w,
                  ExtractTextFromPdf(tmpFiles, w))

CallGetPdfInfo ==
    \E w \in ReadWorlds :
        PdfInvoke("get_pdf_info", 0, 0, <<>>, w, GetPdfInfo(tmpFiles, w))

CallSearchPdfText ==
    \E w \in ReadWorlds :
        PdfInvoke("search_pdf_text", 0, 0, <<>>, w, SearchPdfText(tmpFiles, w))

CallSplitPdfPages ==
    \/ \E w \in EarlyWorlds :
          PdfInvoke("split_pdf_pages", 1, 1, <<>>, w,
                    SplitPdfPages(1, 1, tmpFiles, w))
    \/ \E n \in 0..MaxPages, out \in BOOLEAN,
          start_page \in 0..MaxPages, end_page \in 0..(MaxPages + 1) :
          PdfInvoke("split_pdf_pages", start_page, end_page, <<>>,
                    GoodPdf(n, out),
                    SplitPdfPages(start_page, end_page, tmpFiles,
                                  GoodPdf(n, out)))

CallCreatePdfFromText ==
    \E w \in {PdfWorld(FALSE, Ok(""), TRUE, TRUE, 0, TRUE),
              PdfWorld(TRUE, Ok(""), TRUE, TRUE, 0, TRUE),
              PdfWorld(TRUE, Ok(""), TRUE, TRUE, 0, FALSE)} :
        PdfInvoke("create_pdf_from_text", 0, 0, <<>>, w,
                  CreatePdfFromText(tmpFiles, w))

CallMergePdfs ==
    \E urls \in UrlLists \cup {<<h>> : h \in HeldPdf},
       w \in {GoodPdf(0, TRUE), GoodPdf(0, FALSE),
                                 PdfWorld(FALSE, Ok(""), TRUE, TRUE, 0, TRUE)} :
        PdfInvoke("merge_pdfs", 0, 0, urls, w, MergePdfs(urls, tmpFiles, w))

NextPdf ==
    \/ CallExtractTextFromPdf
    \/ CallGetPdfInfo
    \/ CallSearchPdfText
    \/ CallSplitPdfPages
    \/ CallCreatePdfFromText
    \/ CallMergePdfs

(***************************************************************************)
(* Concurrent invocations of split_pdf_pages.  The handler is a coroutine  *)
(* on one event loop: another invocation can run only while it is          *)
(* suspended at an await.  Between its first await and the next one it     *)
(* downloads, writes and reads its temporary files; at the await before    *)
(* the result (and at the one of the except clause) the input file of the  *)
(* try block is still on disk, to be unlinked by the finally clause.       *)
(***************************************************************************)
Invocations == {1, 2}

NoTask ==
    [pc |-> "idle", start |-> 0, end |-> 0, w |-> GoodPdf(0, TRUE),
     temp |-> {}, resp |-> NoResponse]

\* the documents the concurrent invocations are given
TaskWorlds ==
    { GoodPdf(MaxPages, TRUE),
      PdfWorld(TRUE, Http(404, ""), TRUE, TRUE, 1, TRUE),
      PdfWorld(TRUE, Http(200, "pdf"), TRUE, FALSE, 1, TRUE) }

\* from the first await to the next suspension or to the return
SplitPdfPagesRun(i) ==
    /\ server = "pdf"
    /\ tasks[i].pc \in {"idle", "done"}
    /\ \E w \in TaskWorlds, start_page \in 1..2,
          end_page \in {MaxPages, MaxPages + 1} :
          LET r == SplitPdfPages(start_page, end_page, tmpFiles, w)
              f1 == NewTmp(tmpFiles, ".pdf")
              \* suspended inside the try block, before the finally clause
              inTry == r.caught = "none" /\ r.extracted # <<>>
              \* suspended in the except clause, after the finally clause
              inExcept == r.caught # "none"
          IN  /\ tasks' = [tasks EXCEPT ![i] =
                    [pc |-> IF inTry \/ inExcept THEN "awaiting" ELSE "done",
                     start |-> start_page, end |-> end_page, w |-> w,
                     temp |-> IF inTry THEN {f1} ELSE {},
                     resp |-> r.resp]]
              /\ tmpFiles' = IF inTry THEN r.files \cup {f1} ELSE r.files
    /\ UNCHANGED <<cfgVars, depVars, server, listed, env, calVars, dbxVars, igVars, pdfLast,
                   pdfPrev>>

\* resumed: the result is returned and finally: os.unlink(temp_path) runs
SplitPdfPagesResume(i) ==
    /\ server = "pdf"
    /\ tasks[i].pc = "awaiting"
    /\ tasks' = [tasks EXCEPT ![i].pc = "done", ![i].temp = {}]
    /\ tmpFiles' = tmpFiles \ tasks[i].temp
    /\ UNCHANGED <<cfgVars, depVars, server, listed, env, calVars, dbxVars, igVars, pdfLast,
                   pdfPrev>>

NextConcurrent ==
    \E i \in Invocations : SplitPdfPagesRun(i) \/ SplitPdfPagesResume(i)

(***************************************************************************)
(* config_manager.py: the per-client configuration.  A Python value read   *)
(* from a file or from the environment is a string (StrArg), a number      *)
(* (IntArg), None (NullArg), a list or a dict; a dict is the function from *)
(* its keys to its values.  A configuration file is held as the value that *)
(* yaml.safe_load or json.load makes of it (an empty YAML file loads as    *)
(* None), and Missing stands for a file that does not exist.  A client id  *)
(* is a sequence of one-character strings.                                 *)
(***************************************************************************)
Dict(f) == [t |-> "dict", d |-> f]
List(xs) == [t |-> "list", d |-> xs]
EmptyDict == Dict([k \in {} |-> NullArg])

LowerLetters ==
    <<"a", "b", "c", "d", "e", "f", "g", "h", "i", "j", "k", "l", "m",
      "n", "o", "p", "q", "r", "s", "t", "u", "v", "w", "x", "y", "z">>
UpperLetters ==
    <<"A", "B", "C", "D", "E", "F", "G", "H", "I", "J", "K", "L", "M",
      "N", "O", "P", "Q", "R", "S", "T", "U", "V", "W", "X", "Y", "Z">>

\* str.upper()
Upper(s) ==
    [i \in DOMAIN s |->
        IF \E j \in DOMAIN LowerLetters : LowerLetters[j] = s[i]
        THEN UpperLetters[CHOOSE j \in DOMAIN LowerLetters :
                              LowerLetters[j] = s[i]]
        ELSE s[i]]

\* the client ids that are set, and the id that __init__ falls back to
ClientIds == {<<"a">>, <<"A">>, <<"b">>}
DefaultId == <<"d", "e", "f", "a", "u", "l", "t">>
ConfigIds == ClientIds \cup {DefaultId}

\* os.getenv(name, default) as a string value; os.environ is the function
\* from the names that are set to their strings
Getenv(environ, name, default) ==
    IF name \in DOMAIN environ THEN StrArg(environ[name]) ELSE default

\* os.environ[name] = value
Putenv(environ, name, value) ==
    [n \in DOMAIN environ \cup {name} |->
        IF n = name THEN value ELSE environ[n]]

\* ConfigManager._load_from_env
LoadFromEnv(client_id, environ) ==
    LET prefix == Upper(client_id) \o <<"_">>
        getenv(name) == Getenv(environ, prefix \o <<name>>, NullArg)
    IN  Dict([
          gmail |-> Dict([
            credentials_path |->
                Getenv(environ, prefix \o <<"GMAIL_CREDENTIALS_PATH">>,
                       StrArg(<<"credentials/">> \o client_id
                              \o <<"/gmail_credentials.json">>)),
            token_path |->
                Getenv(environ, prefix \o <<"GMAIL_TOKEN_PATH">>,
                       StrArg(<<"tokens/">> \o client_id
                              \o <<"/gmail_token.pickle">>))]),
          telegram |-> Dict([
            token |-> getenv("TELEGRAM_TOKEN"),
            chat_id |-> getenv("TELEGRAM_CHAT_ID")]),
          pdf_tools |-> Dict([api_key |-> getenv("PDF_API_KEY")]),
          elevenlabs |-> Dict([api_key |-> getenv("ELEVENLABS_API_KEY")]),
          supabase |-> Dict([
            url |-> getenv("SUPABASE_URL"),
            key |-> getenv("SUPABASE_KEY")]),
          instagram |-> Dict([
            access_token |-> getenv("INSTAGRAM_ACCESS_TOKEN"),
            app_id |-> getenv("FACEBOOK_APP_ID"),
            app_secret |-> getenv("FACEBOOK_APP_SECRET"),
            account_id |-> getenv("INSTAGRAM_ACCOUNT_ID"),
            page_id |-> getenv("FACEBOOK_PAGE_ID")]),
          tiktok |-> Dict([
            client_key |-> getenv("TIKTOK_CLIENT_KEY"),
            client_secret |-> getenv("TIKTOK_CLIENT_SECRET"),
            access_token |-> getenv("TIKTOK_ACCESS_TOKEN"),
            refresh_token |-> getenv("TIKTOK_REFRESH_TOKEN")]),
          dropbox |-> Dict([
            access_token |-> getenv("DROPBOX_ACCESS_TOKEN"),
            refresh_token |-> getenv("DROPBOX_REFRESH_TOKEN"),
            app_key |-> getenv("DROPBOX_APP_KEY"),
            app_secret |-> getenv("DROPBOX_APP_SECRET")])])

\* a loader that prefers the JSON file: a variant that the precedence
\* property must tell from LoadConfig
LoadConfigJsonFirst(client_id, files, environ) ==
    IF files[client_id].json.t # "missing" THEN files[client_id].json
    ELSE IF files[client_id].yaml.t # "missing" THEN files[client_id].yaml
    ELSE LoadFromEnv(client_id, environ)

\* ConfigManager._load_config
LoadConfig(client_id, files, environ) ==
    IF files[client_id].yaml.t # "missing" THEN files[client_id].yaml
    ELSE IF files[client_id].json.t # "missing" THEN files[client_id].json
    ELSE LoadFromEnv(client_id, environ)

\* ConfigManager.__init__: an empty client_id is falsy
ConfigManager(client_id, files, environ) ==
    LET id == IF client_id = <<>>
              THEN (IF <<"MCP_CLIENT_ID">> \in DOMAIN environ
                    THEN environ[<<"MCP_CLIENT_ID">>] ELSE DefaultId)
              ELSE client_id
    IN  [client_id |-> id, config |-> LoadConfig(id, files, environ)]

\* what a call hands back: a value, or the exception it raised
Returned(v) == [raised |-> "none", value |-> v]
Raised(e) == [raised |-> e, value |-> NullArg]

\* dict.get(key, default)
DictGet(dict, key, default) ==
    IF key \in DOMAIN dict.d THEN dict.d[key] ELSE default

\* ConfigManager.get: only a dict has the attribute get
ConfigManagerGet(self, service, key, default) ==
    IF self.config.t # "dict" THEN Raised("AttributeError")
    ELSE LET section == DictGet(self.config, service, EmptyDict)
         IN  IF section.t # "dict" THEN Raised("AttributeError")
             ELSE Returned(DictGet(section, key, default))

\* ConfigManager.create_client_config_template: the document that
\* yaml.dump writes to configs/<client_id>.yaml, as it loads again
Template(client_id) ==
    Dict([
      client_info |-> Dict([
        name |-> StrArg(<<"Client ">> \o client_id),
        description |-> StrArg(<<"Configuration for MCP servers">>),
        created |-> StrArg(<<"2024-01-01">>)]),
      gmail |-> Dict([
        credentials_path |-> StrArg(<<"credentials/">> \o client_id
                                    \o <<"/gmail_credentials.json">>),
        token_path |-> StrArg(<<"tokens/">> \o client_id
                              \o <<"/gmail_token.pickle">>),
        scopes |-> List(<<StrArg(
            <<"https://www.googleapis.com/auth/gmail.modify">>)>>)]),
      telegram |-> Dict([
        token |-> StrArg(<<"your_telegram_bot_token">>),
        chat_id |-> StrArg(<<"your_default_chat_id">>),
        parse_mode |-> StrArg(<<"HTML">>)]),
      pdf_tools |-> Dict([
        api_key |-> StrArg(<<"your_pdfshift_api_key">>),
        default_format |-> StrArg(<<"A4">>),
        default_margin |-> IntArg(20)]),
      elevenlabs |-> Dict([
        api_key |-> StrArg(<<"your_elevenlabs_api_key">>),
        default_voice |-> StrArg(<<"rachel">>),
        default_model |-> StrArg(<<"eleven_monolingual_v1">>)]),
      supabase |-> Dict([
        url |-> StrArg(<<"your_supabase_url">>),
        key |-> StrArg(<<"your_supabase_anon_key">>),
        table_prefix |-> StrArg(client_id)]),
      instagram |-> Dict([
        access_token |-> StrArg(<<"your_instagram_access_token">>),
        app_id |-> StrArg(<<"your_facebook_app_id">>),
        app_secret |-> StrArg(<<"your_facebook_app_secret">>),
        account_id |-> StrArg(<<"your_instagram_business_account_id">>),
        page_id |-> StrArg(<<"your_facebook_page_id">>)]),
      tiktok |-> Dict([
        client_key |-> StrArg(<<"your_tiktok_client_key">>),
        client_secret |-> StrArg(<<"your_tiktok_client_secret">>),
        access_token |-> StrArg(<<"your_tiktok_access_token">>),
        refresh_token |-> StrArg(<<"your_tiktok_refresh_token">>)]),
      dropbox |-> Dict([
        access_token |-> StrArg(<<"your_dropbox_access_token">>),
        refresh_token |-> StrArg(<<"your_dropbox_refresh_token">>),
        app_key |-> StrArg(<<"your_dropbox_app_key">>),
        app_secret |-> StrArg(<<"your_dropbox_app_secret">>)]),
      calendar |-> Dict([
        timezone |-> StrArg(<<"UTC">>),
        business_hours |-> Dict([start |-> StrArg(<<"09:00">>),
                                 end |-> StrArg(<<"17:00">>)]),
        excluded_days |-> List(<<StrArg(<<"saturday">>),
                                 StrArg(<<"sunday">>)>>)])])

\* the documents an operator may put at configs/<id>.yaml (an empty file,
\* one that sets the Telegram token, one whose telegram section is left
\* empty) and, written as JSON or as YAML, at either path
YamlDocuments ==
    {NullArg,
     Dict([telegram |-> Dict([token |-> StrArg(<<"yaml-token">>)])]),
     Dict([telegram |-> NullArg])}
JsonDocuments ==
    {Dict([telegram |-> Dict([token |-> StrArg(<<"json-token">>)])])}

NoFiles == [id \in ConfigIds |-> [yaml |-> Missing, json |-> Missing]]
NoEnviron == [n \in {} |-> <<>>]
NoCfgCall ==
    [op |-> "none", client_id |-> <<>>, service |-> "", key |-> "",
     default |-> NullArg, result |-> Returned(NullArg)]

\* an operator writes configs/<client_id>.yaml or configs/<client_id>.json
WriteConfigFile(client_id, kind, doc) ==
    /\ server \in {"config_manager", "deploy_client"}
    /\ edits < MaxEdits
    /\ configFiles' = [configFiles EXCEPT ![client_id][kind] = doc]
    /\ edits' = edits + 1
    /\ cfgLast' = [NoCfgCall EXCEPT !.op = "edit", !.client_id = client_id]
    /\ UNCHANGED <<server, osEnviron, config, coreVars, depVars>>

\* an operator exports <CLIENT_ID>_TELEGRAM_TOKEN
ExportVariable(client_id) ==
    /\ server = "config_manager"
    /\ edits < MaxEdits
    /\ osEnviron' = Putenv(osEnviron,
                           Upper(client_id) \o <<"_", "TELEGRAM_TOKEN">>,
                           <<"env-token-of-">> \o client_id)
    /\ edits' = edits + 1
    /\ cfgLast' = [NoCfgCall EXCEPT !.op = "edit", !.client_id = client_id]
    /\ UNCHANGED <<server, configFiles, config, coreVars, depVars>>

\* set_client(client_id)
SetClient(client_id) ==
    /\ server = "config_manager"
    /\ config' = ConfigManager(client_id, configFiles, osEnviron)
    /\ cfgLast' = [NoCfgCall EXCEPT !.op = "set_client",
                                    !.client_id = client_id]
    /\ UNCHANGED <<server, configFiles, osEnviron, edits, coreVars, depVars>>

\* config.get(service, key, default)
CallConfigGet(service, key, default) ==
    /\ server = "config_manager"
    /\ cfgLast' = [op |-> "get", client_id |-> config.client_id,
                   service |-> service, key |-> key, default |-> default,
                   result |-> ConfigManagerGet(config, service, key, default)]
    /\ UNCHANGED <<server, configFiles, osEnviron, config, edits, coreVars,
                   depVars>>

NextConfig ==
    \/ \E c \in ClientIds :
            \/ \E doc \in YamlDocuments : WriteConfigFile(c, "yaml", doc)
            \/ \E doc \in JsonDocuments : WriteConfigFile(c, "json", doc)
            \/ ExportVariable(c)
            \/ SetClient(c)
    \/ \E service \in {"telegram", "nosuch"}, key \in {"token", "nokey"},
         default \in {NullArg, StrArg(<<"fallback">>)} :
            CallConfigGet(service, key, default)

(***************************************************************************)
(* deploy_client.py: setting up, running, stopping and listing the clients *)
(* of one host.  A server process is named by the client, the launch and   *)
(* the server script that started it, and deployments/<id>/<server>.pid    *)
(* holds the process that the start script recorded; a process id is       *)
(* taken not to be given to a second process.                              *)
(***************************************************************************)
\* the servers that deployments/<id>/start.sh starts and records
ServerNames == {"gmail", "telegram", "pdf", "calendar", "instagram", "tiktok"}

\* the client that the deployment commands are given for
DeployClients == {<<"a">>}

NoPidFiles == [id \in ConfigIds |-> [s \in {} |-> <<>>]]
NoListing == [id \in {} |-> ""]
NoDepCall ==
    [op |-> "none", client_id |-> <<>>, system |-> FALSE,
     listing |-> NoListing]

\* setup_new_client(client_id): the template, then the deployment scripts
SetupNewClient(client_id) ==
    /\ server = "deploy_client"
    /\ configFiles' = [configFiles EXCEPT ![client_id].yaml =
                                               Template(client_id)]
    /\ startScripts' = startScripts \cup {client_id}
    /\ depLast' = [NoDepCall EXCEPT !.op = "setup_new_client",
                                    !.client_id = client_id]
    /\ UNCHANGED <<server, osEnviron, config, cfgLast, edits, pidFiles,
                   alive, launches, coreVars>>

\* os.system("./deployments/<client_id>/start.sh"): with no such script the
\* shell starts nothing; the script starts its servers and records them
StartScript(client_id) ==
    IF client_id \in startScripts
    THEN /\ launches < MaxLaunches
         /\ launches' = launches + 1
         /\ alive' = alive \cup
                {<<client_id, launches + 1, s>> : s \in ServerNames}
         /\ pidFiles' = [pidFiles EXCEPT ![client_id] =
                [s \in ServerNames |-> <<client_id, launches + 1, s>>]]
    ELSE UNCHANGED <<launches, alive, pidFiles>>

\* a run_client that does not look for the configuration file: a variant
\* that the launch property must tell from RunClient
RunClientUnchecked(client_id) ==
    /\ server = "deploy_client"
    /\ osEnviron' = Putenv(osEnviron, <<"MCP_CLIENT_ID">>, client_id)
    /\ StartScript(client_id)
    /\ depLast' = [NoDepCall EXCEPT !.op = "run_client",
                                    !.client_id = client_id,
                                    !.system = TRUE]
    /\ UNCHANGED <<server, configFiles, config, cfgLast, edits,
                   startScripts, coreVars>>

\* run_client(client_id)
RunClient(client_id) ==
    /\ server = "deploy_client"
    /\ IF configFiles[client_id].yaml.t = "missing"
       THEN /\ depLast' = [NoDepCall EXCEPT !.op = "run_client",
                                            !.client_id = client_id]
            /\ UNCHANGED <<osEnviron, launches, alive, pidFiles>>
       ELSE /\ osEnviron' = Putenv(osEnviron, <<"MCP_CLIENT_ID">>, client_id)
            /\ StartScript(client_id)
            /\ depLast' = [NoDepCall EXCEPT !.op = "run_client",
                                            !.client_id = client_id,
                                            !.system = TRUE]
    /\ UNCHANGED <<server, configFiles, config, cfgLast, edits,
                   startScripts, coreVars>>

\* a server process ends by itself
ServerExits(pid) ==
    /\ server = "deploy_client"
    /\ pid \in alive
    /\ alive' = alive \ {pid}
    /\ depLast' = NoDepCall
    /\ UNCHANGED <<server, cfgVars, startScripts, pidFiles, launches,
                   coreVars>>

\* stop_client(client_id): os.kill raises for a process that is gone, and
\* the bare except leaves that pid file where it is
StopClient(client_id) ==
    /\ server = "deploy_client"
    /\ alive' = alive \ {pidFiles[client_id][s] :
                            s \in DOMAIN pidFiles[client_id]}
    /\ pidFiles' = [pidFiles EXCEPT ![client_id] =
            [s \in {x \in DOMAIN pidFiles[client_id] :
                        pidFiles[client_id][x] \notin alive} |->
                pidFiles[client_id][s]]]
    /\ depLast' = [NoDepCall EXCEPT !.op = "stop_client",
                                    !.client_id = client_id]
    /\ UNCHANGED <<server, cfgVars, startScripts, launches, coreVars>>

\* list_clients(): the status printed under every configs/*.yaml
ListClients ==
    /\ server = "deploy_client"
    /\ depLast' = [NoDepCall EXCEPT !.op = "list_clients", !.listing =
            [id \in {c \in ConfigIds : configFiles[c].yaml.t # "missing"} |->
                IF DOMAIN pidFiles[id] # {} THEN "Running" ELSE "Stopped"]]
    /\ UNCHANGED <<server, cfgVars, startScripts, pidFiles, alive, launches,
                   coreVars>>

NextDeploy ==
    \/ \E c \in DeployClients :
            \/ SetupNewClient(c)
            \/ RunClient(c)
            \/ StopClient(c)
            \/ \E doc \in JsonDocuments : WriteConfigFile(c, "yaml", doc)
    \/ \E pid \in alive : ServerExits(pid)
    \/ ListClients

(***************************************************************************)
(* The specifications: a process runs one of the servers, in an            *)
(* environment fixed when it starts.                                       *)
(***************************************************************************)
Servers == {"calendar", "dropbox", "instagram", "pdf"}

Environments(s) ==
    IF s = "dropbox" THEN SUBSET {"DROPBOX_ACCESS_TOKEN"}
    ELSE IF s = "instagram"
    THEN SUBSET {"IG_ACCESS_TOKEN", "IG_PAGE_ID", "IG_USER_ID"}
    ELSE {{}}

Init ==
    /\ server \in Servers
    /\ libcPadsYear \in (IF server = "calendar" THEN BOOLEAN ELSE {TRUE})
    /\ env \in Environments(server)
    /\ listed = <<>>
    /\ calLast = NoCalCall
    /\ calPrev = NoCalCall
    /\ dbxLast = NoDbxCall
    /\ igLast = NoIgCall
    /\ tmpFiles = {}
    /\ pdfLast = NoPdfCall
    /\ pdfPrev = NoPdfCall
    /\ tasks = [i \in Invocations |-> NoTask]
    /\ configFiles = NoFiles
    /\ osEnviron = NoEnviron
    /\ config = ConfigManager(<<>>, NoFiles, NoEnviron)
    /\ cfgLast = NoCfgCall
    /\ edits = 0
    /\ startScripts = {}
    /\ pidFiles = NoPidFiles
    /\ alive = {}
    /\ launches = 0
    /\ depLast = NoDepCall

Next == NextCalendar \/ NextDropbox \/ NextInstagram \/ NextPdf

Spec == Init /\ [][Next]_vars

\* the two servers that register list_tools and call_tool themselves
InitRegistries == Init /\ server \in {"calendar", "dropbox"}

SpecRegistries == InitRegistries /\ [][NextCalendar \/ NextDropbox]_vars

InitCalendar == Init /\ server = "calendar"

SpecCalendar == InitCalendar /\ [][NextCalendar]_vars

InitDropbox == Init /\ server = "dropbox"

SpecDropbox == InitDropbox /\ [][NextDropbox]_vars

InitInstagram == Init /\ server = "instagram"

SpecInstagram == InitInstagram /\ [][NextInstagram]_vars

InitPdf == Init /\ server = "pdf"

SpecPdf == InitPdf /\ [][NextPdf]_vars

\* the PDF Tools server serving two invocations of split_pdf_pages at once
InitConcurrent == Init /\ server = "pdf"

SpecConcurrent == InitConcurrent /\ [][NextConcurrent]_vars

\* a process that has imported config_manager, on a host with no
\* configuration yet
InitConfig ==
    /\ server = "config_manager"
    /\ libcPadsYear = TRUE
    /\ env = {}
    /\ listed = <<>>
    /\ calLast = NoCalCall
    /\ calPrev = NoCalCall
    /\ dbxLast = NoDbxCall
    /\ igLast = NoIgCall
    /\ tmpFiles = {}
    /\ pdfLast = NoPdfCall
    /\ pdfPrev = NoPdfCall
    /\ tasks = [i \in Invocations |-> NoTask]
    /\ configFiles = NoFiles
    /\ osEnviron = NoEnviron
    /\ config = ConfigManager(<<>>, NoFiles, NoEnviron)
    /\ cfgLast = NoCfgCall
    /\ edits = 0
    /\ startScripts = {}
    /\ pidFiles = NoPidFiles
    /\ alive = {}
    /\ launches = 0
    /\ depLast = NoDepCall

SpecConfig == InitConfig /\ [][NextConfig]_vars

\* deploy_client.py, run once per command on the same host
InitDeploy ==
    /\ server = "deploy_client"
    /\ libcPadsYear = TRUE
    /\ env = {}
    /\ listed = <<>>
    /\ calLast = NoCalCall
    /\ calPrev = NoCalCall
    /\ dbxLast = NoDbxCall
    /\ igLast = NoIgCall
    /\ tmpFiles = {}
    /\ pdfLast = NoPdfCall
    /\ pdfPrev = NoPdfCall
    /\ tasks = [i \in Invocations |-> NoTask]
    /\ configFiles = NoFiles
    /\ osEnviron = NoEnviron
    /\ config = ConfigManager(<<>>, NoFiles, NoEnviron)
    /\ cfgLast = NoCfgCall
    /\ edits = 0
    /\ startScripts = {}
    /\ pidFiles = NoPidFiles
    /\ alive = {}
    /\ launches = 0
    /\ depLast = NoDepCall

SpecDeploy == InitDeploy /\ [][NextDeploy]_vars

(***************************************************************************)
(* Properties of the dispatchers and of the failure texts.                 *)
(***************************************************************************)
UnknownToolResponse(name) ==
    [kind |-> "text", text |-> <<L("Unknown tool: "), L(name)>>,
     exc |-> "none"]

\* C1: for every operation name that is not a registered tool name, the
\* Calendar and Dropbox call_tool dispatchers return the single text
\* "Unknown tool: <name>", raise nothing, and make no access to the
\* environment, the network or the file system.
C1_UnknownToolAnswered ==
    /\ (calLast.resp.kind # "none" /\ calLast.name \notin SeqRange(CalendarTools))
          => calLast.resp = UnknownToolResponse(calLast.name)
    /\ (dbxLast.resp.kind # "none" /\ dbxLast.name \notin SeqRange(DropboxTools))
          => /\ dbxLast.resp = UnknownToolResponse(dbxLast.name)
             /\ dbxLast.effects = <<>>
             /\ dbxLast.caught = "none"

\* an unknown name reached the Dropbox dispatcher of a process without a
\* token, with a path argument
C1_UnknownToolWitness ==
    /\ dbxLast.name = "no_such_tool"
    /\ dbxLast.args.dropbox_path = StrArg(<<"/", "a">>)
    /\ env = {}
    /\ dbxLast.resp.kind = "text"

\* C2: every invocation of every operation, whatever its arguments and
\* whatever the vendor or the file system does, ends by returning a text:
\* no exception leaves a handler.
C2_NoExceptionEscapes ==
    /\ calLast.resp.kind # "raised"
    /\ dbxLast.resp.kind # "raised"
    /\ igLast.resp.kind # "raised"
    /\ pdfLast.resp.kind # "raised"

\* the failure prefix of each operation that has a generic except clause
FailurePrefix(name) ==
    CASE name = "upload_file" -> "Upload failed: "
      [] name = "download_file" -> "Download failed: "
      [] name = "list_folder" -> "List folder failed: "
      [] name = "create_folder" -> "Create folder failed: "
      [] name = "delete_file" -> "Delete failed: "
      [] name = "get_file_info" -> "Get file info failed: "
      [] name = "create_shared_link" -> "Create shared link failed: "
      [] name = "search_files" -> "Search failed: "
      [] name = "get_account_info" -> "Get account info failed: "
      [] name = "post_photo" -> "Failed to post photo: "
      [] name = "get_hashtag_insights" -> "Failed to get hashtag insights: "
      [] name = "extract_text_from_pdf" -> "Failed to extract text from PDF: "
      [] name = "get_pdf_info" -> "Failed to get PDF info: "
      [] name = "split_pdf_pages" -> "Failed to split PDF: "
      [] name = "create_pdf_from_text" -> "Failed to create PDF: "
      [] name = "merge_pdfs" -> "Failed to merge PDFs: "
      [] name = "search_pdf_text" -> "Failed to search PDF: "
      [] OTHER -> ""

PrefixThenMessage(last) ==
    last.resp = [kind |-> "text",
                 text |-> <<L(FailurePrefix(last.name)), L(last.excMsg)>>,
                 exc |-> "none"]

CreateAnswered(i) ==
    /\ igLast.effects[i].kind = "http"
    /\ igLast.effects[i].name = "media"
    /\ igLast.effects[i].out = [ok |-> TRUE, status |-> 200, data |-> "id",
                                msg |-> ""]

PublishIssued(j) ==
    igLast.effects[j].kind = "http" /\ igLast.effects[j].name = "media_publish"

\* the create request was answered by JSON and did not give an identifier
CreateStepFailed ==
    /\ igLast.name = "post_photo"
    /\ env = {"IG_ACCESS_TOKEN", "IG_PAGE_ID"}
    /\ igLast.create.ok
    /\ igLast.create.data \in {"id", "error", "empty"}
    /\ (igLast.create.status # 200 \/ igLast.create.data # "id")

\* the responses to a failure of the publish step
PublishFailureResponses ==
    { PostPhoto({"IG_ACCESS_TOKEN", "IG_PAGE_ID"}, Http(200, "id"), p).resp :
        p \in Answers \ {Http(200, "id")} }

\* C4: the publish request is never issued unless the create request gave
\* an identifier, and when the create step fails (a status other than 200,
\* or 200 with a body without 'id') the returned text names a failure of
\* the create stage and differs from every text of a publish failure.
C4_CreateFailureDistinct ==
    /\ \A j \in DOMAIN igLast.effects :
          PublishIssued(j) => \E i \in 1..(j - 1) : CreateAnswered(i)
    /\ CreateStepFailed
          => /\ igLast.resp.kind = "text"
             /\ igLast.resp.text[1] = L("Error creating media: ")
             /\ igLast.resp \notin PublishFailureResponses

Published ==
    /\ igLast.resp.kind = "text"
    /\ igLast.resp.text[1] = L("Photo posted successfully! Post ID: ")

PostFailed ==
    /\ igLast.resp.kind = "text"
    /\ igLast.resp.text[1] \in {L("Error creating media: "),
                               L("Error publishing media: "),
                               L("Failed to post photo: ")}

\* C5: every invocation of post_photo ends in exactly one of Published (the
\* "Photo posted successfully" text) and Failed; Published is reached only
\* after the create request succeeded and then the publish request
\* succeeded, and no publish request comes before a successful create.
C5_PostPhotoStates ==
    igLast.name = "post_photo"
       => /\ Published # PostFailed
          /\ Published \/ PostFailed
          /\ Published
                => \E i \in DOMAIN igLast.effects, j \in DOMAIN igLast.effects :
                      /\ i < j
                      /\ CreateAnswered(i)
                      /\ PublishIssued(j)
                      /\ igLast.effects[j].out.status = 200
                      /\ igLast.effects[j].out.data = "id"
          /\ \A j \in DOMAIN igLast.effects :
                PublishIssued(j) => \E i \in 1..(j - 1) : CreateAnswered(i)

\* a photo was published after both requests succeeded
C5_PublishedWitness ==
    /\ Published
    /\ Len(igLast.effects) = 4
    /\ igLast.publish.status = 200

(***************************************************************************)
(* Properties of the PDF handlers.                                         *)
(***************************************************************************)
\* C6: once a PDF handler has returned, none of the temporary files it
\* created is on disk, whichever way it returned.
C6_NoTempFileLeft == pdfLast.created \cap tmpFiles = {}

\* split_pdf_pages had a readable document before it
SplitReadDocument ==
    /\ pdfLast.name = "split_pdf_pages"
    /\ pdfLast.w.libs
    /\ pdfLast.w.http.ok
    /\ pdfLast.w.http.status = 200
    /\ pdfLast.w.write
    /\ pdfLast.w.reader

\* C10: on a document of N pages split_pdf_pages returns the bounds-error
\* text, and gives no page to the writer and makes no output file, whenever
\* start_page < 1, end_page > N or start_page > end_page; on every request
\* with 1 <= start_page <= end_page <= N it takes exactly the pages
\* start_page..end_page, in order.
C10_SplitPageRange ==
    SplitReadDocument
       => LET s == pdfLast.start
              e == pdfLast.end
              N == pdfLast.w.pages
          IN  /\ (s < 1 \/ e > N \/ s > e)
                    => /\ pdfLast.resp.kind = "text"
                       /\ pdfLast.resp.text[1] = L("Invalid page range: ")
                       /\ pdfLast.extracted = <<>>
                       /\ \A f \in pdfLast.created : f.suffix # "_split.pdf"
              /\ (1 <= s /\ s <= e /\ e <= N)
                    => /\ pdfLast.resp.text[1] # L("Invalid page range: ")
                       /\ Len(pdfLast.extracted) = e - s + 1
                       /\ \A i \in 1..(e - s + 1) :
                             pdfLast.extracted[i] = s + i - 1

\* pages 2..3 of a document of MaxPages pages were extracted
C10_SplitWitness ==
    /\ SplitReadDocument
    /\ pdfLast.w.pages = MaxPages
    /\ pdfLast.start = 2
    /\ pdfLast.end = 3
    /\ pdfLast.extracted = <<2, 3>>
    /\ pdfLast.caught = "none"

SplitSucceeded(call) ==
    /\ call.name = "split_pdf_pages"
    /\ call.resp.kind = "text"
    /\ call.resp.text[1] = L("PDF Split Results:\n")

MergeSucceeded ==
    /\ pdfLast.name = "merge_pdfs"
    /\ pdfLast.resp.kind = "text"
    /\ pdfLast.resp.text[1] = L("PDF Merge Results:\n")

RECURSIVE SumPages(_)
SumPages(urls) ==
    IF urls = <<>> THEN 0 ELSE Head(urls).pages + SumPages(Tail(urls))

DateOf(t) == [y |-> t.y, m |-> t.m, d |-> t.d]

\* the date a one-piece response holds, read back
ReturnedDate(resp) == DateOf(StrptimeDate(resp.text[1].val))

ReturnsDate(resp) ==
    /\ resp.kind = "text"
    /\ Len(resp.text) = 1
    /\ StrptimeDate(resp.text[1].val).ok

Later(a, b) ==
    \/ a.y > b.y
    \/ a.y = b.y /\ a.m > b.m
    \/ a.y = b.y /\ a.m = b.m /\ a.d > b.d

\* C7: at every instant T get_yesterday returns the calendar date whose
\* next day is T's date and get_tomorrow the day after T's date, across
\* the ends of months and years; what get_yesterday returns is never later
\* than what get_today returns at T.
C7_YesterdayTomorrow ==
    /\ calLast.name = "get_yesterday"
          => /\ ReturnsDate(calLast.resp)
             /\ NextCalendarDate(ReturnedDate(calLast.resp))
                   = DateOf(calLast.clock)
             /\ ~Later(ReturnedDate(calLast.resp),
                       ReturnedDate(GetToday(calLast.clock, libcPadsYear)))
    /\ calLast.name = "get_tomorrow"
          => /\ ReturnsDate(calLast.resp)
             /\ ReturnedDate(calLast.resp)
                   = NextCalendarDate(DateOf(calLast.clock))

\* get_yesterday on the first day of 2024 returned the last day of 2023
C7_YearBoundaryWitness ==
    /\ calLast.name = "get_yesterday"
    /\ DateOf(calLast.clock) = [y |-> 2024, m |-> 1, d |-> 1]
    /\ calLast.resp.kind = "text"
    /\ calLast.resp.text =
          <<V(<<"2", "0", "2", "3", "-", "1", "2", "-", "3", "1">>)>>

\* the fixed pattern YYYY-MM-DD
IsoDatePattern(cs) ==
    /\ Len(cs) = 10
    /\ \A i \in {1, 2, 3, 4, 6, 7, 9, 10} : IsDigit(cs[i])
    /\ cs[5] = "-"
    /\ cs[8] = "-"

\* the fixed pattern HH:MM
HourMinutePattern(cs) ==
    /\ Len(cs) = 5
    /\ \A i \in {1, 2, 4, 5} : IsDigit(cs[i])
    /\ cs[3] = ":"

\* C8: when add_days_to_date(d, n) has returned d2 for a date d in the
\* form YYYY-MM-DD and an integer n, get_days_between_dates(d, d2) reports
\* n days and get_days_between_dates(d2, d) reports -n.
C8_RoundTrip ==
    ( /\ calLast.name = "get_days_between_dates"
      /\ calPrev.name = "add_days_to_date"
      /\ calPrev.args.date_string.t = "str"
      /\ IsoDatePattern(calPrev.args.date_string.s)
      /\ calPrev.args.days.t = "int"
      /\ calPrev.resp.kind = "text"
      /\ Len(calPrev.resp.text) = 1 )
       => LET d == calPrev.args.date_string
              d2 == StrArg(calPrev.resp.text[1].val)
              n == calPrev.args.days.n
          IN  /\ (calLast.args.start_date = d /\ calLast.args.end_date = d2)
                    => /\ calLast.resp.kind = "text"
                       /\ Len(calLast.resp.text) = 6
                       /\ calLast.resp.text[6] = V(IntToChars(n))
              /\ (calLast.args.start_date = d2 /\ calLast.args.end_date = d)
                    => /\ calLast.resp.kind = "text"
                       /\ Len(calLast.resp.text) = 6
                       /\ calLast.resp.text[6] = V(IntToChars(-n))

Sent(key) == Get(calLast.args, key, StrArg(<<>>))

BadDate(key) == Sent(key).t = "str" /\ ~IsoDatePattern(Sent(key).s)
BadTime(key) == Sent(key).t = "str" /\ ~HourMinutePattern(Sent(key).s)

\* the response is one of the format-error texts
Rejected ==
    /\ calLast.resp.kind = "text"
    /\ calLast.resp.text[1] \in
          { L("Invalid date format: "),
            L("Invalid date format. Please use YYYY-MM-DD format for both dates."),
            L("Invalid date or time format. Use YYYY-MM-DD for date and HH:MM for time.") }

\* C9: get_date_info, add_days_to_date, get_days_between_dates and
\* schedule_reminder answer every date string that is not of the form
\* YYYY-MM-DD (and schedule_reminder every time string not of the form
\* HH:MM) with a format-error text, neither raising nor computing a result.
C9_RejectsOtherFormats ==
    /\ (calLast.name \in {"get_date_info", "add_days_to_date"}
          /\ BadDate("date_string")) => Rejected
    /\ (calLast.name = "get_days_between_dates"
          /\ Sent("start_date").t = "str" /\ Sent("end_date").t = "str"
          /\ (BadDate("start_date") \/ BadDate("end_date"))) => Rejected
    /\ (calLast.name = "schedule_reminder"
          /\ Sent("date").t = "str" /\ Sent("time").t = "str"
          /\ (BadDate("date") \/ BadTime("time"))) => Rejected

(***************************************************************************)
(* Configuration and vendor failures.                                      *)
(***************************************************************************)
\* The environment variables an operation of the server reads
ReadsVariables(srv, name) ==
    IF srv = "instagram" /\ name = "post_photo"
    THEN {"IG_ACCESS_TOKEN", "IG_PAGE_ID"}
    ELSE IF srv = "instagram" /\ name = "get_hashtag_insights"
    THEN {"IG_ACCESS_TOKEN", "IG_PAGE_ID", "IG_USER_ID"}
    ELSE IF srv = "dropbox" /\ name \in SeqRange(DropboxTools)
    THEN {"DROPBOX_ACCESS_TOKEN"}
    ELSE {}

\* No request left the process: every effect is a read of the environment
NoOutboundRequest(effects) ==
    \A i \in DOMAIN effects : effects[i].kind = "getenv"

\* A failure text: the operation's failure prefix, then a message
FailureText(call) ==
    /\ call.resp.kind = "text"
    /\ Len(call.resp.text) = 2
    /\ call.resp.text[1] = L(FailurePrefix(call.name))

\* C12: when an environment variable the operation reads is not set, the
\* invocation issues no outbound request and returns a failure text.
C12_MissingConfigurationFailsFirst ==
    /\ (dbxLast.name # ""
          /\ ~(ReadsVariables("dropbox", dbxLast.name) \subseteq env))
          => /\ NoOutboundRequest(dbxLast.effects)
             /\ FailureText(dbxLast)
    /\ (igLast.name # ""
          /\ ~(ReadsVariables("instagram", igLast.name) \subseteq env))
          => /\ NoOutboundRequest(igLast.effects)
             /\ FailureText(igLast)

\* The vendor's message, as the handlers extract it from an error payload
VendorMessage == L(ErrorMessage(Http(400, "error")))

\* The answers of the vendor that carry a failure status and an error payload
FailureAnswers(call) ==
    {i \in DOMAIN call.effects :
        /\ call.effects[i].kind = "http"
        /\ call.effects[i].out.ok
        /\ call.effects[i].out.status # 200
        /\ call.effects[i].out.data = "error"}

\* C13: when the vendor answers with a failure status, the response
\* carries the message of the vendor's error payload.
C13_VendorMessageReturned ==
    (igLast.name # "" /\ FailureAnswers(igLast) # {})
        => \E k \in DOMAIN igLast.resp.text : igLast.resp.text[k] = VendorMessage

(***************************************************************************)
(* No retries.                                                             *)
(***************************************************************************)
\* The outbound requests of an invocation, by position in its effects
Requests(effects) ==
    {i \in DOMAIN effects : effects[i].kind \in {"http", "sdk"}}

\* A request the vendor did not serve: an exception, or a failure status
RequestFailed(effect) ==
    ~effect.out.ok \/ (effect.kind = "http" /\ effect.out.status # 200)

\* No request of the invocation is issued a second time
NoRequestTwice(effects) ==
    \A i, j \in Requests(effects) :
        i < j => effects[i].name # effects[j].name

\* merge_pdfs downloads each of its documents once, and none after a failed
\* download; the other PDF handlers download one document
DownloadsOnce(call) ==
    LET gets == Requests(call.effects) IN
    /\ Cardinality(gets)
          <= (IF call.name = "merge_pdfs" THEN Len(call.urls) ELSE 1)
    /\ \A i, j \in gets : i < j => ~RequestFailed(call.effects[i])

\* C14: within one invocation each outbound request of the handler's
\* sequence is issued at most once, whatever the vendor answers, and no
\* request follows a failed one of the same kind.
C14_NoRetries ==
    /\ NoRequestTwice(dbxLast.effects)
    /\ NoRequestTwice(igLast.effects)
    /\ DownloadsOnce(pdfLast)

\* create_shared_link was refused by the vendor and stopped there
C14_RefusedOnceWitness ==
    /\ dbxLast.name = "create_shared_link"
    /\ Len(dbxLast.effects) = 3
    /\ dbxLast.effects[3].name = "sharing_create_shared_link_with_settings"
    /\ RequestFailed(dbxLast.effects[3])
    /\ dbxLast.resp.text[1] = L("Create shared link failed: ")

(***************************************************************************)
(* Required arguments.                                                     *)
(***************************************************************************)
\* The fields the descriptor of the operation declares required
Required(tools, name) ==
    UNION {{tools[i].required[k] : k \in DOMAIN tools[i].required} :
              i \in {j \in DOMAIN tools : tools[j].name = name}}

\* The invocation came without one of the operation's required fields
OmitsRequired(tools, call) ==
    \E k \in Required(tools, call.name) : call.args[k] = Missing

\* The branch of call_tool for the operation produced the response
HandlerRan(call) == call.resp.kind \in {"text", "raised"}

\* C15: an invocation that omits a required field is rejected before the
\* handler body runs: the handler produces no response for it and makes no
\* external call.
C15_MissingRequiredRejected ==
    /\ OmitsRequired(ListCalendarTools, calLast) => ~HandlerRan(calLast)
    /\ OmitsRequired(ListDropboxTools, dbxLast)
          => ~HandlerRan(dbxLast) /\ dbxLast.effects = <<>>

\* The arguments with every absent field replaced by the empty string, or
\* by zero for the integer 'days'
WithDefaults(arguments) ==
    [k \in DOMAIN arguments |->
        IF arguments[k] # Missing THEN arguments[k]
        ELSE IF k = "days" THEN IntArg(0) ELSE StrArg(<<>>)]

DateFields == {"date_string", "start_date", "end_date", "date"}

\* An operation's date is absent, and the dates supplied are strings
DateOmitted(call) ==
    LET dates == Required(ListCalendarTools, call.name) \cap DateFields IN
    /\ \E k \in dates : call.args[k] = Missing
    /\ \A k \in dates : call.args[k].t \in {"missing", "str"}

\* The text of the operation's except ValueError clause for an empty date
FormatErrorText(name) ==
    IF name \in {"get_date_info", "add_days_to_date"}
    THEN InvalidDateFormat(<<>>)
    ELSE IF name = "get_days_between_dates"
    THEN Text(<<L("Invalid date format. Please use YYYY-MM-DD format for both dates.")>>)
    ELSE Text(<<L("Invalid date or time format. Use YYYY-MM-DD for date and HH:MM for time.")>>)

\* C16: in the Calendar and Dropbox dispatchers an invocation without a
\* required argument is answered by the handler exactly as if the empty
\* string (zero for 'days') had been supplied, and a calendar date operation
\* without its date answers the format-error text.
C16_MissingArgumentDefaults ==
    /\ OmitsRequired(ListCalendarTools, calLast)
          => /\ HandlerRan(calLast)
             /\ calLast.resp = CalendarCallTool(calLast.name,
                                    WithDefaults(calLast.args), calLast.clock,
                                    libcPadsYear)
    /\ OmitsRequired(ListDropboxTools, dbxLast)
          => LET r == DropboxCallTool(dbxLast.name, WithDefaults(dbxLast.args),
                                      env, dbxLast.w)
             IN  /\ HandlerRan(dbxLast)
                 /\ dbxLast.resp = r.resp
                 /\ dbxLast.effects = r.effects
    /\ DateOmitted(calLast) => calLast.resp = FormatErrorText(calLast.name)

\* add_days_to_date was invoked without its date and answered the
\* format-error text
C16_MissingDateWitness ==
    /\ calLast.name = "add_days_to_date"
    /\ calLast.args.date_string = Missing
    /\ calLast.args.days.t = "int"
    /\ calLast.resp = InvalidDateFormat(<<>>)

(***************************************************************************)
(* Listing the operations.                                                 *)
(***************************************************************************)
\* The names of the descriptors are pairwise distinct
NamesDistinct(tools) ==
    \A i, j \in DOMAIN tools : i # j => tools[i].name # tools[j].name

\* C17: list_tools returns on every call, whatever tool calls happened in
\* between, the descriptors it returned before, in the same order and with
\* pairwise distinct names, and a call of list_tools changes nothing else.
C17_ListToolsStable ==
    /\ [](NamesDistinct(listed))
    /\ [][listed # <<>> => listed' = listed]_vars
    /\ [][listed' # listed
            => UNCHANGED <<cfgVars, depVars, server, env, calVars, dbxVars, igVars, pdfVars>>]_vars

\* the operations were listed, and the listing is all eight Calendar
\* descriptors, after a tool of the server was called
C17_ListedWitness ==
    /\ Len(listed) = 8
    /\ listed[6] = Tool("add_days_to_date", <<"date_string", "days">>)
    /\ calLast.name = "add_days_to_date"
    /\ calLast.resp.kind = "text"

(***************************************************************************)
(* Dropbox paths.                                                          *)
(***************************************************************************)
\* The argument that holds the operation's Dropbox path
PathField(name) ==
    IF name \in {"list_folder", "create_folder"} THEN "folder_path"
    ELSE "dropbox_path"

PathOperations ==
    {"upload_file", "download_file", "list_folder", "create_folder",
     "delete_file", "get_file_info", "create_shared_link"}

\* A path the vendor takes: it begins with '/', or it is the root of
\* list_folder
Normalised(name, cs) ==
    At(cs, 1) = "/" \/ (name = "list_folder" /\ cs = <<>>)

\* C18: every Dropbox operation that takes a Dropbox path passes to the SDK
\* a path that begins with '/' (or the empty string, the root, in
\* list_folder), whatever path string the caller supplied.
C18_PathsNormalised ==
    (/\ dbxLast.name \in PathOperations
     /\ dbxLast.args[PathField(dbxLast.name)].t = "str")
        => \A i \in DOMAIN dbxLast.effects :
              dbxLast.effects[i].kind = "sdk"
                  => Normalised(dbxLast.name, dbxLast.effects[i].arg.s)

(***************************************************************************)
(* Concurrent invocations.                                                 *)
(***************************************************************************)
\* The response the invocation would give when run alone
AloneResponse(task) ==
    SplitPdfPages(task.start, task.end, {}, task.w).resp

PublishStepFailed ==
    /\ igLast.name = "post_photo"
    /\ \E i \in DOMAIN igLast.effects :
          /\ igLast.effects[i].name = "media_publish"
          /\ RequestFailed(igLast.effects[i])

\* C20: when the publish step of post_photo fails after the create step
\* succeeded, the handler returns the publish-failure text and the publish
\* request is its last outbound request: nothing is issued to delete or
\* roll back the created media object.
C20_NoCompensation ==
    PublishStepFailed
        => /\ igLast.resp.kind = "text"
           /\ igLast.resp.text[1] \in {L("Error publishing media: "),
                                       L("Failed to post photo: ")}
           /\ igLast.effects[Len(igLast.effects)].name = "media_publish"
           /\ Cardinality(Requests(igLast.effects)) = 2

\* the media object was created and the vendor refused to publish it
C20_PublishRefusedWitness ==
    /\ PublishStepFailed
    /\ igLast.create = Http(200, "id")
    /\ igLast.publish = Http(400, "error")
    /\ igLast.resp.text = <<L("Error publishing media: "), VendorMessage>>

(***************************************************************************)
(* Uploading a local file that does not exist.                             *)
(***************************************************************************)
\* upload_file was invoked with a local path, a string, at which no file is
UploadOfAbsentFile ==
    /\ dbxLast.name = "upload_file"
    /\ dbxLast.args.local_path.t = "str"
    /\ ~dbxLast.w.exists

RequestsNamed(name) ==
    {i \in DOMAIN dbxLast.effects :
        dbxLast.effects[i].kind = "sdk" /\ dbxLast.effects[i].name = name}

\* The listing request returned at least one link
ListedALink(i) ==
    dbxLast.effects[i].out.ok /\ dbxLast.effects[i].out.data = "link"

\* C28: create_shared_link issues the create request only after a listing
\* request that returned no link or failed; when the listing returns a link
\* that link is answered and nothing is created; a failed listing is never
\* what the operation reports, the outcome of the create request is.
C28_CreateOnlyWithoutLink ==
    dbxLast.name = "create_shared_link"
        => LET lists == RequestsNamed("sharing_list_shared_links")
               creates ==
                   RequestsNamed("sharing_create_shared_link_with_settings")
           IN  /\ \A c \in creates :
                     \E l \in lists : l < c /\ ~ListedALink(l)
               /\ \A l \in lists :
                     ListedALink(l)
                         => /\ creates = {}
                            /\ dbxLast.resp =
                                  Text(<<L("Shared link: "), L("(url)")>>)
               /\ \A l \in lists :
                     ~dbxLast.effects[l].out.ok
                         => /\ creates # {}
                            /\ \A c \in creates :
                                  dbxLast.resp =
                                    IF dbxLast.effects[c].out.ok
                                    THEN Text(<<L("Shared link created: "),
                                                L("(url)")>>)
                                    ELSE Text(<<L("Create shared link failed: "),
                                                L(dbxLast.effects[c].out.msg)>>)

\* the listing failed, and the link was created all the same
C28_ListingFailureSwallowedWitness ==
    /\ dbxLast.name = "create_shared_link"
    /\ Len(dbxLast.effects) = 3
    /\ dbxLast.effects[2].out = Err("ListSharedLinksError")
    /\ dbxLast.resp = Text(<<L("Shared link created: "), L("(url)")>>)

(***************************************************************************)
(* The three requests of get_hashtag_insights.                             *)
(***************************************************************************)
\* The names of the HTTP requests of the last Instagram invocation, in the
\* order they were issued
RECURSIVE HttpNames(_)
HttpNames(effects) ==
    IF effects = <<>> THEN <<>>
    ELSE IF Head(effects).kind = "http"
    THEN <<Head(effects).name>> \o HttpNames(Tail(effects))
    ELSE HttpNames(Tail(effects))

HashtagRequests == <<"ig_hashtag_search", "hashtag", "recent_media">>

\* An answer with status 200
Succeeded(answer) == answer.ok /\ answer.status = 200

ListedNames(tools) == {tools[i].name : i \in DOMAIN tools}

\* C30: in the Calendar and Dropbox servers every name list_tools returns
\* is handled by a branch of call_tool, so that it never answers 'Unknown
\* tool', and every name call_tool handles is returned by list_tools.
C30_RegistryMatchesDispatcher ==
    /\ ListedNames(ListCalendarTools) = SeqRange(CalendarTools)
    /\ ListedNames(ListDropboxTools) = SeqRange(DropboxTools)
    /\ calLast.resp.kind # "none"
          => (calLast.name \in ListedNames(ListCalendarTools)
                <=> calLast.resp # UnknownToolResponse(calLast.name))
    /\ dbxLast.resp.kind # "none"
          => (dbxLast.name \in ListedNames(ListDropboxTools)
                <=> dbxLast.resp # UnknownToolResponse(dbxLast.name))

\* the last operation of the listing was listed, called, and handled by
\* its branch
C30_ListedAndHandledWitness ==
    /\ listed = ListCalendarTools
    /\ calLast.name = listed[Len(listed)].name
    /\ calLast.resp.kind = "text"
    /\ calLast.resp.text[1] \in
          {L("Reminder scheduled: '"),
           L("Invalid date or time format. Use YYYY-MM-DD for date and HH:MM for time.")}

(***************************************************************************)
(* The two Calendar implementations.                                       *)
(***************************************************************************)
\* The declared type of a field of the Calendar descriptors
DeclaredType(field) == IF field = "days" THEN "int" ELSE "str"

\* The invocation names a Calendar operation and supplies every declared
\* field with the declared type
WellTyped(call) ==
    /\ call.name \in ListedNames(ListCalendarTools)
    /\ \A k \in Required(ListCalendarTools, call.name) :
          call.args[k].t = DeclaredType(k)

\* C27: for every operation name and every argument mapping that supplies
\* all declared fields with the declared types, the call_tool dispatcher
\* and the FastMCP tool function of the Calendar server give the same
\* result, the same text or the same exception, at the same clock.
C27_ImplementationsAgree ==
    WellTyped(calLast)
        => calLast.resp = FastMcpCalendarTool(calLast.name, calLast.args,
                                              calLast.clock, libcPadsYear)

\* get_yesterday was invoked on the first day of a month, and the
\* dispatcher answered a date
C27_YesterdayWitness ==
    /\ calLast.name = "get_yesterday"
    /\ calLast.clock.d = 1
    /\ calLast.resp.kind = "text"
    /\ calLast.resp =
          FastMcpCalendarTool("get_yesterday", calLast.args, calLast.clock,
                              libcPadsYear)

(***************************************************************************)
(* Properties of the configuration manager.                                *)
(***************************************************************************)
Exists(file) == file.t # "missing"

\* the environments that differ from the present one in the client's
\* Telegram token
OtherEnvironments(client_id) ==
    {osEnviron,
     Putenv(osEnviron, Upper(client_id) \o <<"_", "TELEGRAM_TOKEN">>,
            <<"another-token">>)}

\* C23: ConfigManager loads a client's configuration with strict precedence:
\* when configs/<id>.yaml exists the manager holds that file's document,
\* whatever the JSON file and the environment hold; when only
\* configs/<id>.json exists it holds that document; and only when neither
\* file exists does it hold the values of the prefixed environment
\* variables.
C23_LoadPrecedence ==
    cfgLast.op = "set_client" =>
        LET id == cfgLast.client_id
            files == configFiles[id]
        IN  /\ config.client_id = id
            /\ Exists(files.yaml) =>
                /\ config.config = files.yaml
                /\ \A json \in JsonDocuments \cup {Missing},
                      environ \in OtherEnvironments(id) :
                        ConfigManager(id,
                            [configFiles EXCEPT ![id].json = json],
                            environ) = config
            /\ ~Exists(files.yaml) /\ Exists(files.json) =>
                /\ config.config = files.json
                /\ \A environ \in OtherEnvironments(id) :
                        ConfigManager(id, configFiles, environ) = config
            /\ ~Exists(files.yaml) /\ ~Exists(files.json) =>
                /\ config.config.t = "dict"
                /\ config.config.d.telegram.d.token =
                        Getenv(osEnviron,
                               Upper(id) \o <<"_", "TELEGRAM_TOKEN">>,
                               NullArg)

\* set_client for a client that has both a YAML and a JSON file
C23_BothFilesWitness ==
    /\ cfgLast.op = "set_client"
    /\ Exists(configFiles[cfgLast.client_id].yaml)
    /\ Exists(configFiles[cfgLast.client_id].json)
    /\ configFiles[cfgLast.client_id].yaml
            # configFiles[cfgLast.client_id].json
    /\ config.config = configFiles[cfgLast.client_id].yaml

\* the value set for (service, key) in what the manager loaded, Missing
\* when none is
Configured(self, service, key) ==
    IF /\ self.config.t = "dict"
       /\ service \in DOMAIN self.config.d
       /\ self.config.d[service].t = "dict"
       /\ key \in DOMAIN self.config.d[service].d
       /\ self.config.d[service].d[key].t # "null"
    THEN self.config.d[service].d[key]
    ELSE Missing

\* C24: ConfigManager.get(service, key, default) never raises, returns the
\* configured value when one is set for (service, key) and returns the
\* default whenever none is, whichever source the configuration was loaded
\* from (YAML, JSON, environment fallback, empty file).
C24_GetValueOrDefault ==
    cfgLast.op = "get" =>
        /\ cfgLast.result.raised = "none"
        /\ cfgLast.result.value =
                IF Configured(config, cfgLast.service, cfgLast.key).t
                        # "missing"
                THEN Configured(config, cfgLast.service, cfgLast.key)
                ELSE cfgLast.default

\* C22: clients are isolated: for any two distinct client ids a and b, a
\* change to b's configuration (its files or its prefixed environment
\* variables) never changes the manager that set_client returns for a; and
\* the module-level config always denotes the most recently set client.
C22_ClientIsolation ==
    [][/\ \A a \in ClientIds :
            cfgLast'.op = "edit" /\ cfgLast'.client_id # a =>
                ConfigManager(a, configFiles', osEnviron')
                    = ConfigManager(a, configFiles, osEnviron)
       /\ cfgLast'.op = "set_client" =>
            config'.client_id = cfgLast'.client_id
       /\ cfgLast'.op # "set_client" => config' = config]_vars

(***************************************************************************)
(* Properties of the deployment script.                                    *)
(***************************************************************************)
\* the server processes of a client that run
Running(client_id, processes) == {pid \in processes : pid[1] = client_id}

\* C25: after stop_client(c) completes, list_clients reports c as Stopped,
\* whatever the state of c's server processes was before (all running,
\* some already gone, pid files stale); and list_clients reports a client
\* as Running only while at least one of its server processes is alive.
C25_StoppedAfterStop ==
    [][depLast'.op = "list_clients" =>
        \A c \in DOMAIN depLast'.listing :
            /\ depLast'.listing[c] = "Running" => Running(c, alive) # {}
            /\ depLast.op = "stop_client" /\ depLast.client_id = c =>
                    depLast'.listing[c] = "Stopped"]_vars

\* C26: run_client(c) sets MCP_CLIENT_ID and runs the client's start script
\* if and only if configs/<c>.yaml exists when it is called; when the file
\* does not exist the environment, the running servers and the pid files
\* stay as they are.  setup_new_client(c) leaves the file and the start
\* script in place, so a run_client(c) that follows it starts the servers.
C26_RunClientLaunch ==
    [][\A c \in DeployClients :
        /\ depLast'.op = "run_client" /\ depLast'.client_id = c
                /\ edits' = edits =>
            /\ depLast'.system <=> Exists(configFiles[c].yaml)
            /\ Exists(configFiles[c].yaml) =>
                /\ <<"MCP_CLIENT_ID">> \in DOMAIN osEnviron'
                /\ osEnviron'[<<"MCP_CLIENT_ID">>] = c
            /\ ~Exists(configFiles[c].yaml) =>
                UNCHANGED <<osEnviron, alive, pidFiles, launches>>
            /\ depLast.op = "setup_new_client" /\ depLast.client_id = c =>
                /\ depLast'.system
                /\ \A s \in ServerNames :
                    /\ s \in DOMAIN pidFiles'[c]
                    /\ pidFiles'[c][s] \in alive' \ alive
        /\ depLast'.op = "setup_new_client" /\ depLast'.client_id = c =>
            /\ Exists(configFiles'[c].yaml)
            /\ c \in startScripts']_vars

\* run_client started the six servers of a client that was set up
C26_LaunchedWitness ==
    /\ depLast.op = "run_client"
    /\ depLast.system
    /\ depLast.client_id \in startScripts
    /\ Exists(configFiles[depLast.client_id].yaml)
    /\ osEnviron[<<"MCP_CLIENT_ID">>] = depLast.client_id
    /\ \A s \in ServerNames :
            pidFiles[depLast.client_id][s] \in alive

====
